---- MODULE Spec2Model ----
(***************************************************************************)
(* Model of the goldfish graphics mapper (system/hals/mapper3.cpp): the    *)
(* buffer handle life cycle (importBuffer / freeBuffer) and the lock /     *)
(* lockYCbCr / unlock state machine of GoldfishMapper, together with the   *)
(* fence wait and the host synchronisation it performs through the         *)
(* render-control encoder of the host connection.                          *)
(*                                                                         *)
(* Every public call of the mapper is one action.  What the environment    *)
(* decides during a call (the results of sync_wait, of memoryMap, of the   *)
(* host cache flush) is chosen with \E at the point where the code asks    *)
(* for it.  lastCall records the call just made: its arguments, the handle  *)
(* as the call found it, its typed result, the values handed to the        *)
(* callback and, in order, the external calls and lock-state writes it     *)
(* performed.                                                              *)
(***************************************************************************)
EXTENDS Integers, Sequences, FiniteSets, TLC

----------------------------------------------------------------------------
(* Bounds of the model *)

\* largest numFds of an acquire-fence native handle
MaxFenceFds == 2

\* largest width and height of the buffers whose plane layout is computed
MaxWidth == 17
MaxHeight == 10

----------------------------------------------------------------------------
(* Constants of the program *)

\* BufferUsage::CPU_READ_MASK and BufferUsage::CPU_WRITE_MASK
CPU_READ_MASK == 15
CPU_WRITE_MASK == 240

\* BufferUsage values used as declared and requested usage
CPU_READ_RARELY == 2
CPU_READ_OFTEN == 3
CPU_WRITE_OFTEN == 48
GPU_TEXTURE == 256

\* Error3
NONE == "NONE"
BAD_BUFFER == "BAD_BUFFER"
BAD_VALUE == "BAD_VALUE"
NO_RESOURCES == "NO_RESOURCES"

Error3 == {NONE, BAD_BUFFER, BAD_VALUE, NO_RESOURCES}

\* PixelFormat values a handle can carry
PixelFormat == {"RGBA_8888", "YCRCB_420_SP", "YV12", "YCBCR_420_888", "YCBCR_P010"}

----------------------------------------------------------------------------
(* Bit operations on naturals *)

RECURSIVE BitAnd(_, _)
\* the C operator & on unsigned values
BitAnd(a, b) ==
    IF a = 0 \/ b = 0 THEN 0
    ELSE (a % 2) * (b % 2) + 2 * BitAnd(a \div 2, b \div 2)

\* size_t align(v, a) { return (v + a - 1) & ~(a - 1); }
align(v, a) == (v + a - 1) - BitAnd(v + a - 1, a - 1)

----------------------------------------------------------------------------
(* Values *)

\* a Rect
Rect(l, t, w, h) == [left |-> l, top |-> t, width |-> w, height |-> h]

\* the void* raw arguments that are not a cb_handle_30_t:
\* the null pointer, and a native handle that cb_handle_30_t::from rejects
NullRaw == 0
UnrecognizedRaw == -1

\* pointer values: the null pointer, the address a raw handle may carry over
\* from the process that allocated it, and the address memoryMap returns for
\* the clone in slot h
NullPtr == 0
ForeignPtr == 1
MappedPtr(h) == 16 * h

\* the fields of a cb_handle_30_t the mapper reads or writes
cb_handle_30_t(usage, bufferSize, mmapedSize, bufferFdIndex, mmapedOffset, hostHandle, format, width, height, bufferPtr) ==
    [usage |-> usage, bufferSize |-> bufferSize, mmapedSize |-> mmapedSize,
     bufferFdIndex |-> bufferFdIndex, mmapedOffset |-> mmapedOffset,
     hostHandle |-> hostHandle, format |-> format,
     width |-> width, height |-> height, bufferPtr |-> bufferPtr,
     lockedUsage |-> 0, lockedLeft |-> 0, lockedTop |-> 0,
     lockedWidth |-> 0, lockedHeight |-> 0]

\* The native handles importBuffer is given: handles as the allocator
\* serialises them (lock state zero), covering every branch of the mapper:
\* with and without host handle, CPU readable / writable / neither, with
\* zero bufferSize, with zero mmapedSize and a null or a carried-over
\* pointer, with a negative buffer fd index, and each YUV format.
RawHandles ==
    { cb_handle_30_t(CPU_READ_OFTEN + CPU_WRITE_OFTEN + GPU_TEXTURE,
                     64, 64, 0, 128, 7, "RGBA_8888", 4, 2, ForeignPtr),
      cb_handle_30_t(CPU_READ_OFTEN + CPU_WRITE_OFTEN,
                     64, 64, 0, 128, 0, "YV12", 4, 2, NullPtr),
      cb_handle_30_t(CPU_READ_OFTEN + GPU_TEXTURE,
                     64, 64, 0, 256, 7, "YCBCR_420_888", 4, 2, ForeignPtr),
      cb_handle_30_t(CPU_WRITE_OFTEN + GPU_TEXTURE,
                     64, 64, 0, 256, 7, "YV12", 4, 2, NullPtr),
      cb_handle_30_t(GPU_TEXTURE,
                     64, 64, 0, 128, 7, "RGBA_8888", 4, 2, NullPtr),
      cb_handle_30_t(CPU_READ_OFTEN + CPU_WRITE_OFTEN,
                     0, 64, 0, 128, 0, "RGBA_8888", 4, 2, NullPtr),
      cb_handle_30_t(CPU_READ_OFTEN + CPU_WRITE_OFTEN,
                     64, 0, -1, 0, 0, "RGBA_8888", 4, 2, NullPtr),
      cb_handle_30_t(CPU_READ_OFTEN + CPU_WRITE_OFTEN,
                     64, 0, -1, 0, 7, "YCRCB_420_SP", 4, 2, ForeignPtr),
      cb_handle_30_t(CPU_READ_OFTEN + CPU_WRITE_OFTEN,
                     64, 64, -1, 0, 0, "RGBA_8888", 4, 2, NullPtr),
      cb_handle_30_t(CPU_READ_OFTEN + CPU_WRITE_OFTEN,
                     64, 64, 0, 128, 0, "YCBCR_P010", 4, 2, NullPtr) }

\* native handles of CPU-accessible buffers without host handle, of every
\* format and every width and height up to MaxWidth x MaxHeight
LayoutHandles ==
    { cb_handle_30_t(CPU_READ_OFTEN + CPU_WRITE_OFTEN, 4 * w * h, 4 * w * h,
                     0, 128, 0, f, w, h, NullPtr) :
        f \in PixelFormat, w \in 1..MaxWidth, h \in 1..MaxHeight }

\* a slot that holds no handle
NoHandle == [usage |-> -1]

\* the cpuUsage arguments of lock and lockYCbCr: part of the read bits, all
\* read and write bits together with a bit outside the CPU masks, and no
\* CPU bit at all
Usages == {CPU_READ_RARELY, CPU_READ_OFTEN + CPU_WRITE_OFTEN + GPU_TEXTURE,
           GPU_TEXTURE}

\* the accessRegion arguments of lock and lockYCbCr
Regions == {Rect(0, 0, 4, 2), Rect(1, 0, 2, 1)}

\* the acquireFence argument: no native handle, or a native handle with
\* numFds file descriptors and numInts integers
hidl_handle(numFds, numInts) == [numFds |-> numFds, numInts |-> numInts]
NoFence == hidl_handle(-1, -1)
Fences == {NoFence, hidl_handle(1, 1)} \cup
          { hidl_handle(n, 0) : n \in 0..MaxFenceFds }

\* the YCbCrLayout3 handed to the callback of a failed lockYCbCr ("{}")
NoLayout == [y |-> 0, cb |-> 0, cr |-> 0,
             yStride |-> 0, cStride |-> 0, chromaStep |-> 0]

----------------------------------------------------------------------------
(* State *)

VARIABLES
    handles,             \* slot -> the imported cb_handle_30_t living there, or NoHandle
    m_featureInfo,       \* the capability flags of the mapper's host connection
    m_physAddrToOffset,  \* GoldfishMapper::m_physAddrToOffset
    clones,              \* the slots whose native_handle_clone was not deleted yet
    mappings,            \* the addresses memoryMap gave out and memoryUnmap did not take back
    aborted,             \* the process was ended by LOG_ALWAYS_FATAL / CRASH
    lastCall,            \* the call just made, its result and its trace
    constructed,         \* the GoldfishMapper constructor has returned
    description,         \* the BufferDescriptorInfo a client asks isSupported about
    connections,         \* HostConnection: calling context -> its connection
    threads              \* the binder threads inside lockImpl on one handle

vars == <<handles, m_featureInfo, m_physAddrToOffset, clones, mappings, aborted, lastCall,
          constructed, description, connections, threads>>

\* what no call of the mapper made by one thread reads or writes
elsewhere == <<description, connections, threads>>

NoDescription == [format |-> "none"]
NoConnections == << >>
NoThreads == << >>

\* The mapper keeps no table of handles: every call reads and writes only
\* the handle it is given.  The slots are the places a clone made by
\* importBuffer can live in, from that call to its freeBuffer.
Slots == DOMAIN handles

\* the native handle argument of importBuffer: the null handle, a native
\* handle that is not a cb_handle_30_t, or a cb_handle_30_t
NullNative == [kind |-> "null", cb |-> NoHandle]
OtherNative == [kind |-> "other", cb |-> NoHandle]
NativeHandles == {NullNative, OtherNative} \cup
                 { [kind |-> "cb", cb |-> c] : c \in RawHandles }

\* the record of a call
Call(op, raw, nh, usage, region, fence, before, e, ptr, ycbcr, log) ==
    [op |-> op, raw |-> raw, nh |-> nh, usage |-> usage, region |-> region,
     fence |-> fence, before |-> before, result |-> e, ptr |-> ptr,
     ycbcr |-> ycbcr, log |-> log]

NoCall == Call("none", NullRaw, NullNative, 0, Rect(0, 0, 0, 0), NoFence,
               NoHandle, NONE, NullPtr, NoLayout, <<>>)

\* cb_handle_30_t::from(raw): the handle, for a raw pointer that is one
IsLive(raw) == raw \in Slots /\ handles[raw] # NoHandle

\* the raw arguments of lock, lockYCbCr, unlock and freeBuffer
RawArgs == {NullRaw, UnrecognizedRaw} \cup {h \in Slots : handles[h] # NoHandle}

----------------------------------------------------------------------------
(* The trace of a call *)

\* one external call or lock-state write made during a mapper call: what
\* was called, on which descriptor / host handle / pointer, with which
\* argument, and what it answered
Ev(call, on, arg, res) == [call |-> call, on |-> on, arg |-> arg, res |-> res]

\* const int warningTimeout = 5000;
warningTimeout == 5000

\* the descriptor in data[0] of a fence handle with one fd, and the word
\* waitHidlFence reads from data[0] of a fence handle that has no fd
FenceFd == 3
StrayFd == -2

\* what the sync_wait calls of one waitFenceFd return, in order: the bounded
\* wait, and the unbounded wait that is made only after the bounded one
\* failed with errno == ETIME
SyncWaitRuns == { <<"signaled">>, <<"ETIME", "signaled">>,
                  <<"ETIME", "error">>, <<"error">> }

\* the value waitFenceFd and waitHidlFence return on failure (an errno)
WaitFailed == 1

----------------------------------------------------------------------------
(* Fence wait *)

\* waitFenceFd with the timeout of the bounded wait taken for a failure
waitFenceFd_TimeoutFails(fd, run) ==
    LET bounded == Ev("sync_wait", fd, warningTimeout, run[1])
    IN  IF run[1] # "signaled"
        THEN [ret |-> WaitFailed, log |-> << bounded >>]
        ELSE [ret |-> 0, log |-> << bounded >>]

\* waitFenceFd with the result of the unbounded wait not looked at
waitFenceFd_IgnoresLateError(fd, run) ==
    LET bounded == Ev("sync_wait", fd, warningTimeout, run[1])
        unbounded == Ev("sync_wait", fd, -1, run[2])
    IN  IF run[1] # "signaled"
        THEN IF run[1] = "ETIME"
             THEN [ret |-> 0, log |-> << bounded, unbounded >>]
             ELSE [ret |-> WaitFailed, log |-> << bounded >>]
        ELSE [ret |-> 0, log |-> << bounded >>]

\* waitFenceFd(fd, logname), sync_wait answering as in run
waitFenceFd(fd, run) ==
    LET bounded == Ev("sync_wait", fd, warningTimeout, run[1])
        unbounded == Ev("sync_wait", fd, -1, run[2])
    IN  IF run[1] # "signaled"
        THEN IF run[1] = "ETIME"
             THEN IF run[2] # "signaled"
                  THEN [ret |-> WaitFailed, log |-> << bounded, unbounded >>]
                  ELSE [ret |-> 0, log |-> << bounded, unbounded >>]
             ELSE [ret |-> WaitFailed, log |-> << bounded >>]
        ELSE [ret |-> 0, log |-> << bounded >>]

\* waitHidlFence(hidlHandle, logname): the outcomes it can have.  With
\* numFds == 0 and numInts == 0 it passes data[0], which lies past the end
\* of the handle's data, to waitFenceFd: the descriptor is whatever that
\* word holds and sync_wait on it can answer anything.
waitHidlFence(hidlHandle) ==
    IF hidlHandle = NoFence
    THEN { [ret |-> 0, log |-> <<>>] }
    ELSE IF hidlHandle.numFds > 1
    THEN { [ret |-> WaitFailed, log |-> <<>>] }
    ELSE IF hidlHandle.numInts # 0
    THEN { [ret |-> WaitFailed, log |-> <<>>] }
    ELSE { waitFenceFd(IF hidlHandle.numFds = 1 THEN FenceFd ELSE StrayFd, run) :
             run \in SyncWaitRuns }

----------------------------------------------------------------------------
(* Host synchronisation *)

\* uint64_t getMmapedPhysAddr(uint64_t offset) const
getMmapedPhysAddr(offset) == m_physAddrToOffset + offset

\* gralloc_is_yuv_format(format): the formats the switches that follow it in
\* lockHostImpl and unlockHostImpl handle ("switch is out of sync with
\* gralloc_is_yuv_format" otherwise)
gralloc_is_yuv_format(format) == format \in {"YV12", "YCBCR_420_888"}

\* the result of a call that did not return: CRASH / LOG_ALWAYS_FATAL
ABORT == "ABORT"

\* what a read-back of the colour buffer can do on the host; none of the
\* three read calls of lockHostImpl has its result looked at
ReadResults == {"ok", "fail"}

\* the start_x, start_y, end_x, end_y arguments of rgb888_to_yv12 and
\* rgb888_to_yuv420p, as the one number a trace entry carries
Corners(left, top, right, bottom) == ((left * 16 + top) * 16 + right) * 16 + bottom

\* lockHostImpl that reads the colour buffer back whatever the usage
lockHostImpl_ReadsBackAlways(cb, checkedUsage, accessRegion) ==
    LET usageSwRead == BitAnd(checkedUsage, CPU_READ_MASK) # 0
        flush(res) == Ev("rcColorBufferCacheFlush", cb.hostHandle,
                         IF usageSwRead THEN 1 ELSE 0, res)
        host(call, res) == Ev(call, cb.hostHandle, 0, res)
        bind == Ev("bindDmaDirectly", cb.bufferPtr,
                   getMmapedPhysAddr(cb.mmapedOffset), "ok")
        corners == Corners(accessRegion.left, accessRegion.top,
                           accessRegion.left + accessRegion.width - 1,
                           accessRegion.top + accessRegion.height - 1)
        read(res) ==
            IF gralloc_is_yuv_format(cb.format)
            THEN IF m_featureInfo.hasYUVCache
                 THEN IF cb.format \in {"YV12", "YCBCR_420_888"}
                      THEN [e |-> NONE, log |-> << host("rcReadColorBufferYUV", res) >>]
                      ELSE [e |-> ABORT, log |-> <<>>]
                 ELSE IF cb.format = "YV12"
                      THEN [e |-> NONE,
                            log |-> << host("rcReadColorBuffer", res),
                                       Ev("rgb888_to_yv12", cb.bufferPtr, corners, "ok") >>]
                      ELSE IF cb.format = "YCBCR_420_888"
                      THEN [e |-> NONE,
                            log |-> << host("rcReadColorBuffer", res),
                                       Ev("rgb888_to_yuv420p", cb.bufferPtr, corners, "ok") >>]
                      ELSE [e |-> ABORT, log |-> << host("rcReadColorBuffer", res) >>]
            ELSE IF m_featureInfo.hasReadColorBufferDma
                 THEN [e |-> NONE,
                       log |-> << bind, host("rcReadColorBufferDMA", res) >>]
                 ELSE [e |-> NONE, log |-> << host("rcReadColorBuffer", res) >>]
    IN  { [e |-> NO_RESOURCES, log |-> << flush("fail") >>] } \cup
        ( IF TRUE
          THEN { [e |-> read(res).e, log |-> << flush("ok") >> \o read(res).log] :
                 res \in ReadResults }
          ELSE { [e |-> NONE, log |-> << flush("ok") >>] } )

\* lockHostImpl(cb, checkedUsage, accessRegion, bufferBits): the outcomes it
\* can have; rcColorBufferCacheFlush answers res < 0 ("fail") or not
lockHostImpl(cb, checkedUsage, accessRegion) ==
    LET usageSwRead == BitAnd(checkedUsage, CPU_READ_MASK) # 0
        flush(res) == Ev("rcColorBufferCacheFlush", cb.hostHandle,
                         IF usageSwRead THEN 1 ELSE 0, res)
        host(call, res) == Ev(call, cb.hostHandle, 0, res)
        bind == Ev("bindDmaDirectly", cb.bufferPtr,
                   getMmapedPhysAddr(cb.mmapedOffset), "ok")
        corners == Corners(accessRegion.left, accessRegion.top,
                           accessRegion.left + accessRegion.width - 1,
                           accessRegion.top + accessRegion.height - 1)
        read(res) ==
            IF gralloc_is_yuv_format(cb.format)
            THEN IF m_featureInfo.hasYUVCache
                 THEN IF cb.format \in {"YV12", "YCBCR_420_888"}
                      THEN [e |-> NONE, log |-> << host("rcReadColorBufferYUV", res) >>]
                      ELSE [e |-> ABORT, log |-> <<>>]
                 ELSE IF cb.format = "YV12"
                      THEN [e |-> NONE,
                            log |-> << host("rcReadColorBuffer", res),
                                       Ev("rgb888_to_yv12", cb.bufferPtr, corners, "ok") >>]
                      ELSE IF cb.format = "YCBCR_420_888"
                      THEN [e |-> NONE,
                            log |-> << host("rcReadColorBuffer", res),
                                       Ev("rgb888_to_yuv420p", cb.bufferPtr, corners, "ok") >>]
                      ELSE [e |-> ABORT, log |-> << host("rcReadColorBuffer", res) >>]
            ELSE IF m_featureInfo.hasReadColorBufferDma
                 THEN [e |-> NONE,
                       log |-> << bind, host("rcReadColorBufferDMA", res) >>]
                 ELSE [e |-> NONE, log |-> << host("rcReadColorBuffer", res) >>]
    IN  { [e |-> NO_RESOURCES, log |-> << flush("fail") >>] } \cup
        ( IF usageSwRead
          THEN { [e |-> read(res).e, log |-> << flush("ok") >> \o read(res).log] :
                 res \in ReadResults }
          ELSE { [e |-> NONE, log |-> << flush("ok") >>] } )

\* unlockHostImpl that pushes the buffer whatever it was locked for
unlockHostImpl_AlwaysPushes(cb) ==
    IF gralloc_is_yuv_format(cb.format)
         /\ cb.format \notin {"YV12", "YCBCR_420_888"}
    THEN [e |-> ABORT, log |-> <<>>]
    ELSE [e |-> NONE,
          log |-> << Ev("bindDmaDirectly", cb.bufferPtr,
                        getMmapedPhysAddr(cb.mmapedOffset), "ok"),
                     Ev("rcUpdateColorBufferDMA", cb.hostHandle, 0, "ok") >>]

\* unlockHostImpl(cb, bufferBits): the host calls it makes
unlockHostImpl(cb) ==
    IF BitAnd(cb.lockedUsage, CPU_WRITE_MASK) # 0
    THEN IF gralloc_is_yuv_format(cb.format)
              /\ cb.format \notin {"YV12", "YCBCR_420_888"}
         THEN [e |-> ABORT, log |-> <<>>]
         ELSE [e |-> NONE,
               log |-> << Ev("bindDmaDirectly", cb.bufferPtr,
                             getMmapedPhysAddr(cb.mmapedOffset), "ok"),
                          Ev("rcUpdateColorBufferDMA", cb.hostHandle, 0, "ok") >>]
    ELSE [e |-> NONE, log |-> <<>>]

----------------------------------------------------------------------------
(* lock, lockYCbCr, unlock *)

\* setLocked that keeps only the write bits of the usage
setLocked_DropsReadBits(cb, checkedUsage, accessRegion) ==
    IF BitAnd(checkedUsage, CPU_WRITE_MASK) # 0
    THEN [cb EXCEPT !.lockedLeft = accessRegion.left,
                    !.lockedTop = accessRegion.top,
                    !.lockedWidth = accessRegion.width,
                    !.lockedHeight = accessRegion.height,
                    !.lockedUsage = BitAnd(checkedUsage, CPU_WRITE_MASK)]
    ELSE [cb EXCEPT !.lockedLeft = 0,
                    !.lockedTop = 0,
                    !.lockedWidth = cb.width,
                    !.lockedHeight = cb.height,
                    !.lockedUsage = checkedUsage]

\* setLocked that stores the requested region for every usage
setLocked_AlwaysRegion(cb, checkedUsage, accessRegion) ==
    [cb EXCEPT !.lockedLeft = accessRegion.left,
               !.lockedTop = accessRegion.top,
               !.lockedWidth = accessRegion.width,
               !.lockedHeight = accessRegion.height,
               !.lockedUsage = checkedUsage]

\* setLocked(cb, checkedUsage, accessRegion)
setLocked(cb, checkedUsage, accessRegion) ==
    IF BitAnd(checkedUsage, CPU_WRITE_MASK) # 0
    THEN [cb EXCEPT !.lockedLeft = accessRegion.left,
                    !.lockedTop = accessRegion.top,
                    !.lockedWidth = accessRegion.width,
                    !.lockedHeight = accessRegion.height,
                    !.lockedUsage = checkedUsage]
    ELSE [cb EXCEPT !.lockedLeft = 0,
                    !.lockedTop = 0,
                    !.lockedWidth = cb.width,
                    !.lockedHeight = cb.height,
                    !.lockedUsage = checkedUsage]

\* checkedUsage computed without the handle's declared usage
checkedUsageOf_IgnoresDeclared(uncheckedUsage, cb) ==
    BitAnd(uncheckedUsage, CPU_READ_MASK + CPU_WRITE_MASK) % 256

\* const uint8_t checkedUsage = uncheckedUsage & cb->usage &
\*     (BufferUsage::CPU_READ_MASK | BufferUsage::CPU_WRITE_MASK);
checkedUsageOf(uncheckedUsage, cb) ==
    BitAnd(BitAnd(uncheckedUsage, cb.usage), CPU_READ_MASK + CPU_WRITE_MASK) % 256

\* the checks of lockImpl without the check of lockedUsage
lockImplChecks_NoLockedCheck(raw, uncheckedUsage) ==
    IF raw = NullRaw THEN BAD_BUFFER
    ELSE IF ~IsLive(raw) THEN BAD_BUFFER
    ELSE IF checkedUsageOf(uncheckedUsage, handles[raw]) = 0 THEN BAD_VALUE
    ELSE IF handles[raw].bufferSize = 0 THEN BAD_BUFFER
    ELSE IF handles[raw].bufferPtr = NullPtr THEN BAD_BUFFER
    ELSE NONE

\* the checks of lockImpl without the check of the mapped pointer
lockImplChecks_NoPtrCheck(raw, uncheckedUsage) ==
    IF raw = NullRaw THEN BAD_BUFFER
    ELSE IF ~IsLive(raw) THEN BAD_BUFFER
    ELSE IF handles[raw].lockedUsage # 0 THEN BAD_VALUE
    ELSE IF checkedUsageOf(uncheckedUsage, handles[raw]) = 0 THEN BAD_VALUE
    ELSE IF handles[raw].bufferSize = 0 THEN BAD_BUFFER
    ELSE NONE

\* the checks of lockImpl with the buffer size checked before the usage
lockImplChecks_SizeFirst(raw, uncheckedUsage) ==
    IF raw = NullRaw THEN BAD_BUFFER
    ELSE IF ~IsLive(raw) THEN BAD_BUFFER
    ELSE IF handles[raw].lockedUsage # 0 THEN BAD_VALUE
    ELSE IF handles[raw].bufferSize = 0 THEN BAD_BUFFER
    ELSE IF checkedUsageOf(uncheckedUsage, handles[raw]) = 0 THEN BAD_VALUE
    ELSE IF handles[raw].bufferPtr = NullPtr THEN BAD_BUFFER
    ELSE NONE

\* the checks lockImpl makes before it waits on the fence: the error of the
\* first that fails, or NONE
lockImplChecks(raw, uncheckedUsage) ==
    IF raw = NullRaw THEN BAD_BUFFER
    ELSE IF ~IsLive(raw) THEN BAD_BUFFER
    ELSE IF handles[raw].lockedUsage # 0 THEN BAD_VALUE
    ELSE IF checkedUsageOf(uncheckedUsage, handles[raw]) = 0 THEN BAD_VALUE
    ELSE IF handles[raw].bufferSize = 0 THEN BAD_BUFFER
    ELSE IF handles[raw].bufferPtr = NullPtr THEN BAD_BUFFER
    ELSE NONE

\* the result of a lock call: the error, the handle as the call leaves it,
\* the pointer and layout it hands out, and its trace
Outcome(e, cb, ptr, ycbcr, log) ==
    [e |-> e, cb |-> cb, ptr |-> ptr, ycbcr |-> ycbcr, log |-> log]

\* lockImpl(raw, uncheckedUsage, accessRegion, acquireFence, ...): the
\* outcomes it can have
lockImpl(raw, uncheckedUsage, accessRegion, acquireFence) ==
    IF lockImplChecks(raw, uncheckedUsage) # NONE
    THEN { Outcome(lockImplChecks(raw, uncheckedUsage),
                   IF IsLive(raw) THEN handles[raw] ELSE NoHandle,
                   NullPtr, NoLayout, <<>>) }
    ELSE
    LET cb == handles[raw]
        checkedUsage == checkedUsageOf(uncheckedUsage, cb)
        bufferBits == cb.bufferPtr
        locked(log) ==
            Outcome(NONE, setLocked(cb, checkedUsage, accessRegion), bufferBits,
                    NoLayout, log \o << Ev("setLocked", raw, checkedUsage, "ok") >>)
    IN  UNION {
          IF w.ret # 0
          THEN { Outcome(BAD_VALUE, cb, NullPtr, NoLayout, w.log) }
          ELSE IF cb.hostHandle # 0
          THEN { IF hs.e # NONE
                 THEN Outcome(hs.e, cb, NullPtr, NoLayout, w.log \o hs.log)
                 ELSE locked(w.log \o hs.log) :
                 hs \in lockHostImpl(cb, checkedUsage, accessRegion) }
          ELSE { locked(w.log) } :
          w \in waitHidlFence(acquireFence) }

\* the checks of lockYCbCrImpl with the buffer size checked before the usage
lockYCbCrImplChecks_SizeFirst(raw, uncheckedUsage) ==
    IF raw = NullRaw THEN BAD_BUFFER
    ELSE IF ~IsLive(raw) THEN BAD_BUFFER
    ELSE IF handles[raw].lockedUsage # 0 THEN BAD_VALUE
    ELSE IF handles[raw].bufferSize = 0 THEN BAD_BUFFER
    ELSE IF checkedUsageOf(uncheckedUsage, handles[raw]) = 0 THEN BAD_VALUE
    ELSE IF handles[raw].bufferPtr = NullPtr THEN BAD_BUFFER
    ELSE NONE

\* the checks lockYCbCrImpl makes before it waits on the fence
lockYCbCrImplChecks(raw, uncheckedUsage) ==
    IF raw = NullRaw THEN BAD_BUFFER
    ELSE IF ~IsLive(raw) THEN BAD_BUFFER
    ELSE IF handles[raw].lockedUsage # 0 THEN BAD_VALUE
    ELSE IF checkedUsageOf(uncheckedUsage, handles[raw]) = 0 THEN BAD_VALUE
    ELSE IF handles[raw].bufferSize = 0 THEN BAD_BUFFER
    ELSE IF handles[raw].bufferPtr = NullPtr THEN BAD_BUFFER
    ELSE NONE

\* the switch of lockYCbCrImpl with the chroma stride of YV12 not aligned
YCbCrPlanes_Yv12Unaligned(format, width, height) ==
    CASE format = "YCRCB_420_SP" ->
           [ok |-> TRUE, yStride |-> width, cStride |-> width,
            uOffset |-> width * height + 1, vOffset |-> width * height, cStep |-> 2]
      [] format = "YV12" ->
           LET yStride == align(width, 16)
               cStride == yStride \div 2
               vOffset == yStride * height
               uOffset == vOffset + ((cStride * height) \div 2)
           IN  [ok |-> TRUE, yStride |-> yStride, cStride |-> cStride,
                uOffset |-> uOffset, vOffset |-> vOffset, cStep |-> 1]
      [] format = "YCBCR_420_888" ->
           LET yStride == width
               cStride == yStride \div 2
               uOffset == height * yStride
               vOffset == uOffset + ((cStride * height) \div 2)
           IN  [ok |-> TRUE, yStride |-> yStride, cStride |-> cStride,
                uOffset |-> uOffset, vOffset |-> vOffset, cStep |-> 1]
      [] format = "YCBCR_P010" ->
           [ok |-> TRUE, yStride |-> width * 2, cStride |-> width * 2,
            uOffset |-> height * width * 2, vOffset |-> height * width * 2 + 2,
            cStep |-> 4]
      [] OTHER ->
           [ok |-> FALSE, yStride |-> 0, cStride |-> 0,
            uOffset |-> 0, vOffset |-> 0, cStep |-> 0]

\* the switch of lockYCbCrImpl with a default case that does not return
YCbCrPlanes_NoDefault(format, width, height) ==
    CASE format = "YCRCB_420_SP" ->
           [ok |-> TRUE, yStride |-> width, cStride |-> width,
            uOffset |-> width * height + 1, vOffset |-> width * height, cStep |-> 2]
      [] format = "YV12" ->
           LET yStride == align(width, 16)
               cStride == align(yStride \div 2, 16)
               vOffset == yStride * height
               uOffset == vOffset + ((cStride * height) \div 2)
           IN  [ok |-> TRUE, yStride |-> yStride, cStride |-> cStride,
                uOffset |-> uOffset, vOffset |-> vOffset, cStep |-> 1]
      [] format = "YCBCR_420_888" ->
           LET yStride == width
               cStride == yStride \div 2
               uOffset == height * yStride
               vOffset == uOffset + ((cStride * height) \div 2)
           IN  [ok |-> TRUE, yStride |-> yStride, cStride |-> cStride,
                uOffset |-> uOffset, vOffset |-> vOffset, cStep |-> 1]
      [] format = "YCBCR_P010" ->
           [ok |-> TRUE, yStride |-> width * 2, cStride |-> width * 2,
            uOffset |-> height * width * 2, vOffset |-> height * width * 2 + 2,
            cStep |-> 4]
      [] OTHER ->
           [ok |-> TRUE, yStride |-> 0, cStride |-> 0,
            uOffset |-> 0, vOffset |-> 0, cStep |-> 0]

\* the switch of lockYCbCrImpl on cb->format: strides, offsets and step,
\* or ok = FALSE for the default case
YCbCrPlanes(format, width, height) ==
    CASE format = "YCRCB_420_SP" ->
           LET yStride == width
               cStride == yStride
               vOffset == yStride * height
               uOffset == vOffset + 1
           IN  [ok |-> TRUE, yStride |-> yStride, cStride |-> cStride,
                uOffset |-> uOffset, vOffset |-> vOffset, cStep |-> 2]
      [] format = "YV12" ->
           LET yStride == align(width, 16)
               cStride == align(yStride \div 2, 16)
               vOffset == yStride * height
               uOffset == vOffset + ((cStride * height) \div 2)
           IN  [ok |-> TRUE, yStride |-> yStride, cStride |-> cStride,
                uOffset |-> uOffset, vOffset |-> vOffset, cStep |-> 1]
      [] format = "YCBCR_420_888" ->
           LET yStride == width
               cStride == yStride \div 2
               uOffset == height * yStride
               vOffset == uOffset + ((cStride * height) \div 2)
           IN  [ok |-> TRUE, yStride |-> yStride, cStride |-> cStride,
                uOffset |-> uOffset, vOffset |-> vOffset, cStep |-> 1]
      [] format = "YCBCR_P010" ->
           LET yStride == width * 2
               cStride == yStride
               uOffset == height * yStride
               vOffset == uOffset + 2
           IN  [ok |-> TRUE, yStride |-> yStride, cStride |-> cStride,
                uOffset |-> uOffset, vOffset |-> vOffset, cStep |-> 4]
      [] OTHER ->
           [ok |-> FALSE, yStride |-> 0, cStride |-> 0,
            uOffset |-> 0, vOffset |-> 0, cStep |-> 0]

\* lockYCbCrImpl(raw, uncheckedUsage, accessRegion, acquireFence, pYcbcr):
\* the outcomes it can have
lockYCbCrImpl(raw, uncheckedUsage, accessRegion, acquireFence) ==
    IF lockYCbCrImplChecks(raw, uncheckedUsage) # NONE
    THEN { Outcome(lockYCbCrImplChecks(raw, uncheckedUsage),
                   IF IsLive(raw) THEN handles[raw] ELSE NoHandle,
                   NullPtr, NoLayout, <<>>) }
    ELSE
    LET cb == handles[raw]
        checkedUsage == checkedUsageOf(uncheckedUsage, cb)
        bufferBits == cb.bufferPtr
        p == YCbCrPlanes(cb.format, cb.width, cb.height)
        switch == << Ev("switch(format)", raw, 0, IF p.ok THEN "ok" ELSE "default") >>
        locked(log) ==
            Outcome(NONE, setLocked(cb, checkedUsage, accessRegion), bufferBits,
                    [y |-> bufferBits, cb |-> bufferBits + p.uOffset,
                     cr |-> bufferBits + p.vOffset, yStride |-> p.yStride,
                     cStride |-> p.cStride, chromaStep |-> p.cStep],
                    log \o << Ev("setLocked", raw, checkedUsage, "ok") >>)
    IN  UNION {
          IF w.ret # 0
          THEN { Outcome(BAD_VALUE, cb, NullPtr, NoLayout, w.log) }
          ELSE IF ~p.ok
          THEN { Outcome(BAD_BUFFER, cb, NullPtr, NoLayout, w.log \o switch) }
          ELSE IF cb.hostHandle # 0
          THEN { IF hs.e # NONE
                 THEN Outcome(hs.e, cb, NullPtr, NoLayout, w.log \o switch \o hs.log)
                 ELSE locked(w.log \o switch \o hs.log) :
                 hs \in lockHostImpl(cb, checkedUsage, accessRegion) }
          ELSE { locked(w.log \o switch) } :
          w \in waitHidlFence(acquireFence) }

\* unlockImpl that clears lockedUsage but not the locked region
unlockImpl_KeepsRegion(raw) ==
    IF raw = NullRaw THEN Outcome(BAD_BUFFER, NoHandle, NullPtr, NoLayout, <<>>)
    ELSE IF ~IsLive(raw) THEN Outcome(BAD_BUFFER, NoHandle, NullPtr, NoLayout, <<>>)
    ELSE
    LET cb == handles[raw]
        hs == IF cb.hostHandle # 0 THEN unlockHostImpl(cb)
              ELSE [e |-> NONE, log |-> <<>>]
    IN  IF cb.lockedUsage = 0 THEN Outcome(BAD_VALUE, cb, NullPtr, NoLayout, <<>>)
        ELSE IF cb.bufferSize = 0 THEN Outcome(BAD_BUFFER, cb, NullPtr, NoLayout, <<>>)
        ELSE IF cb.bufferPtr = NullPtr THEN Outcome(BAD_BUFFER, cb, NullPtr, NoLayout, <<>>)
        ELSE IF hs.e # NONE THEN Outcome(hs.e, cb, NullPtr, NoLayout, hs.log)
        ELSE Outcome(NONE, [cb EXCEPT !.lockedUsage = 0], NullPtr, NoLayout,
                     hs.log \o << Ev("clearLocked", raw, 0, "ok") >>)

\* unlockImpl without the check that the handle is locked
unlockImpl_NoLockedCheck(raw) ==
    IF raw = NullRaw THEN Outcome(BAD_BUFFER, NoHandle, NullPtr, NoLayout, <<>>)
    ELSE IF ~IsLive(raw) THEN Outcome(BAD_BUFFER, NoHandle, NullPtr, NoLayout, <<>>)
    ELSE
    LET cb == handles[raw]
        hs == IF cb.hostHandle # 0 THEN unlockHostImpl(cb)
              ELSE [e |-> NONE, log |-> <<>>]
    IN  IF cb.bufferSize = 0 THEN Outcome(BAD_BUFFER, cb, NullPtr, NoLayout, <<>>)
        ELSE IF cb.bufferPtr = NullPtr THEN Outcome(BAD_BUFFER, cb, NullPtr, NoLayout, <<>>)
        ELSE IF hs.e # NONE THEN Outcome(hs.e, cb, NullPtr, NoLayout, hs.log)
        ELSE Outcome(NONE,
                     [cb EXCEPT !.lockedLeft = 0, !.lockedTop = 0,
                                !.lockedWidth = 0, !.lockedHeight = 0,
                                !.lockedUsage = 0],
                     NullPtr, NoLayout,
                     hs.log \o << Ev("clearLocked", raw, 0, "ok") >>)

\* unlockImpl with the buffer size checked before the lock state
unlockImpl_SizeFirst(raw) ==
    IF raw = NullRaw THEN Outcome(BAD_BUFFER, NoHandle, NullPtr, NoLayout, <<>>)
    ELSE IF ~IsLive(raw) THEN Outcome(BAD_BUFFER, NoHandle, NullPtr, NoLayout, <<>>)
    ELSE
    LET cb == handles[raw]
        hs == IF cb.hostHandle # 0 THEN unlockHostImpl(cb)
              ELSE [e |-> NONE, log |-> <<>>]
    IN  IF cb.bufferSize = 0 THEN Outcome(BAD_BUFFER, cb, NullPtr, NoLayout, <<>>)
        ELSE IF cb.lockedUsage = 0 THEN Outcome(BAD_VALUE, cb, NullPtr, NoLayout, <<>>)
        ELSE IF cb.bufferPtr = NullPtr THEN Outcome(BAD_BUFFER, cb, NullPtr, NoLayout, <<>>)
        ELSE IF hs.e # NONE THEN Outcome(hs.e, cb, NullPtr, NoLayout, hs.log)
        ELSE Outcome(NONE,
                     [cb EXCEPT !.lockedLeft = 0, !.lockedTop = 0,
                                !.lockedWidth = 0, !.lockedHeight = 0,
                                !.lockedUsage = 0],
                     NullPtr, NoLayout,
                     hs.log \o << Ev("clearLocked", raw, 0, "ok") >>)

\* unlockImpl(raw)
unlockImpl(raw) ==
    IF raw = NullRaw THEN Outcome(BAD_BUFFER, NoHandle, NullPtr, NoLayout, <<>>)
    ELSE IF ~IsLive(raw) THEN Outcome(BAD_BUFFER, NoHandle, NullPtr, NoLayout, <<>>)
    ELSE
    LET cb == handles[raw]
        hs == IF cb.hostHandle # 0 THEN unlockHostImpl(cb)
              ELSE [e |-> NONE, log |-> <<>>]
    IN  IF cb.lockedUsage = 0 THEN Outcome(BAD_VALUE, cb, NullPtr, NoLayout, <<>>)
        ELSE IF cb.bufferSize = 0 THEN Outcome(BAD_BUFFER, cb, NullPtr, NoLayout, <<>>)
        ELSE IF cb.bufferPtr = NullPtr THEN Outcome(BAD_BUFFER, cb, NullPtr, NoLayout, <<>>)
        ELSE IF hs.e # NONE THEN Outcome(hs.e, cb, NullPtr, NoLayout, hs.log)
        ELSE Outcome(NONE,
                     [cb EXCEPT !.lockedLeft = 0, !.lockedTop = 0,
                                !.lockedWidth = 0, !.lockedHeight = 0,
                                !.lockedUsage = 0],
                     NullPtr, NoLayout,
                     hs.log \o << Ev("clearLocked", raw, 0, "ok") >>)

----------------------------------------------------------------------------
(* importBuffer, freeBuffer *)

\* importBufferImpl that keeps the clone when memoryMap fails
importBufferImpl_LeaksOnMapFailure(nh, h) ==
    IF nh.kind = "null" THEN { Outcome(BAD_BUFFER, NoHandle, NullPtr, NoLayout, <<>>) }
    ELSE IF h = 0
    THEN { Outcome(BAD_BUFFER, NoHandle, NullPtr, NoLayout,
                   << Ev("native_handle_clone", 0, 0, "fail") >>) }
    ELSE
    LET clone == << Ev("native_handle_clone", h, 0, "ok") >>
        release == << Ev("native_handle_close", h, 0, "ok"),
                      Ev("native_handle_delete", h, 0, "ok") >>
        map(res) == << Ev("memoryMap", h, nh.cb.mmapedSize, res) >>
    IN  IF nh.kind # "cb"
        THEN { Outcome(BAD_BUFFER, NoHandle, NullPtr, NoLayout, clone \o release) }
        ELSE IF nh.cb.mmapedSize > 0
        THEN IF nh.cb.bufferFdIndex < 0
             THEN { Outcome(ABORT, NoHandle, NullPtr, NoLayout, clone) }
             ELSE { Outcome(NO_RESOURCES, NoHandle, NullPtr, NoLayout,
                            clone \o map("fail")),
                    Outcome(NONE, [nh.cb EXCEPT !.bufferPtr = MappedPtr(h)],
                            NullPtr, NoLayout, clone \o map("ok")) }
        ELSE { Outcome(NONE, nh.cb, NullPtr, NoLayout, clone) }

\* importBufferImpl that maps the buffer but leaves in the clone the
\* pointer of the native handle it was cloned from
importBufferImpl_KeepsPointer(nh, h) ==
    IF nh.kind = "null" THEN { Outcome(BAD_BUFFER, NoHandle, NullPtr, NoLayout, <<>>) }
    ELSE IF h = 0
    THEN { Outcome(BAD_BUFFER, NoHandle, NullPtr, NoLayout,
                   << Ev("native_handle_clone", 0, 0, "fail") >>) }
    ELSE
    LET clone == << Ev("native_handle_clone", h, 0, "ok") >>
        release == << Ev("native_handle_close", h, 0, "ok"),
                      Ev("native_handle_delete", h, 0, "ok") >>
        map(res) == << Ev("memoryMap", h, nh.cb.mmapedSize, res) >>
    IN  IF nh.kind # "cb"
        THEN { Outcome(BAD_BUFFER, NoHandle, NullPtr, NoLayout, clone \o release) }
        ELSE IF nh.cb.mmapedSize > 0
        THEN IF nh.cb.bufferFdIndex < 0
             THEN { Outcome(ABORT, NoHandle, NullPtr, NoLayout, clone) }
             ELSE { Outcome(NO_RESOURCES, NoHandle, NullPtr, NoLayout,
                            clone \o map("fail") \o release),
                    Outcome(NONE, nh.cb, NullPtr, NoLayout, clone \o map("ok")) }
        ELSE { Outcome(NONE, nh.cb, NullPtr, NoLayout, clone) }

\* importBufferImpl(nh, phandle): the outcomes it can have, where h is the
\* slot native_handle_clone puts the clone in (0: it returned null) and
\* memoryMap answers res != 0 ("fail") or not
importBufferImpl(nh, h) ==
    IF nh.kind = "null" THEN { Outcome(BAD_BUFFER, NoHandle, NullPtr, NoLayout, <<>>) }
    ELSE IF h = 0
    THEN { Outcome(BAD_BUFFER, NoHandle, NullPtr, NoLayout,
                   << Ev("native_handle_clone", 0, 0, "fail") >>) }
    ELSE
    LET clone == << Ev("native_handle_clone", h, 0, "ok") >>
        release == << Ev("native_handle_close", h, 0, "ok"),
                      Ev("native_handle_delete", h, 0, "ok") >>
        map(res) == << Ev("memoryMap", h, nh.cb.mmapedSize, res) >>
    IN  IF nh.kind # "cb"
        THEN { Outcome(BAD_BUFFER, NoHandle, NullPtr, NoLayout, clone \o release) }
        ELSE IF nh.cb.mmapedSize > 0
        THEN IF nh.cb.bufferFdIndex < 0
             THEN { Outcome(ABORT, NoHandle, NullPtr, NoLayout, clone) }
             ELSE { Outcome(NO_RESOURCES, NoHandle, NullPtr, NoLayout,
                            clone \o map("fail") \o release),
                    Outcome(NONE, [nh.cb EXCEPT !.bufferPtr = MappedPtr(h)],
                            NullPtr, NoLayout, clone \o map("ok")) }
        ELSE { Outcome(NONE, nh.cb, NullPtr, NoLayout, clone) }

\* freeBuffer that deletes the handle without unmapping its buffer
freeBuffer_NoUnmap(raw) ==
    IF raw = NullRaw THEN Outcome(BAD_BUFFER, NoHandle, NullPtr, NoLayout, <<>>)
    ELSE IF ~IsLive(raw) THEN Outcome(BAD_BUFFER, NoHandle, NullPtr, NoLayout, <<>>)
    ELSE Outcome(NONE, NoHandle, NullPtr, NoLayout,
                 << Ev("native_handle_close", raw, 0, "ok"),
                    Ev("native_handle_delete", raw, 0, "ok") >>)

\* freeBuffer that refuses a handle that is locked
freeBuffer_RefusesLocked(raw) ==
    IF raw = NullRaw THEN Outcome(BAD_BUFFER, NoHandle, NullPtr, NoLayout, <<>>)
    ELSE IF ~IsLive(raw) THEN Outcome(BAD_BUFFER, NoHandle, NullPtr, NoLayout, <<>>)
    ELSE IF handles[raw].lockedUsage # 0
    THEN Outcome(BAD_VALUE, NoHandle, NullPtr, NoLayout, <<>>)
    ELSE
    LET cb == handles[raw]
        unmap == IF cb.mmapedSize > 0
                 THEN << Ev("memoryUnmap", cb.bufferPtr, cb.mmapedSize, "ok") >>
                 ELSE <<>>
    IN  Outcome(NONE, NoHandle, NullPtr, NoLayout,
                unmap \o << Ev("native_handle_close", raw, 0, "ok"),
                            Ev("native_handle_delete", raw, 0, "ok") >>)

\* freeBuffer(raw)
freeBuffer(raw) ==
    IF raw = NullRaw THEN Outcome(BAD_BUFFER, NoHandle, NullPtr, NoLayout, <<>>)
    ELSE IF ~IsLive(raw) THEN Outcome(BAD_BUFFER, NoHandle, NullPtr, NoLayout, <<>>)
    ELSE
    LET cb == handles[raw]
        unmap == IF cb.mmapedSize > 0
                 THEN << Ev("memoryUnmap", cb.bufferPtr, cb.mmapedSize, "ok") >>
                 ELSE <<>>
    IN  Outcome(NONE, NoHandle, NullPtr, NoLayout,
                unmap \o << Ev("native_handle_close", raw, 0, "ok"),
                            Ev("native_handle_delete", raw, 0, "ok") >>)

----------------------------------------------------------------------------
(* The calls of the mapper *)

RECURSIVE ClonesAfter(_, _)
\* the live clones after the native_handle_clone / native_handle_delete
\* calls of a trace
ClonesAfter(log, live) ==
    IF log = <<>> THEN live
    ELSE LET e == Head(log)
         IN  ClonesAfter(Tail(log),
                 IF e.call = "native_handle_clone" /\ e.res = "ok"
                 THEN live \cup {e.on}
                 ELSE IF e.call = "native_handle_delete"
                 THEN live \ {e.on}
                 ELSE live)

RECURSIVE MappingsAfter(_, _)
\* the live mappings after the memoryMap / memoryUnmap calls of a trace
MappingsAfter(log, live) ==
    IF log = <<>> THEN live
    ELSE LET e == Head(log)
         IN  MappingsAfter(Tail(log),
                 IF e.call = "memoryMap" /\ e.res = "ok"
                 THEN live \cup {MappedPtr(e.on)}
                 ELSE IF e.call = "memoryUnmap"
                 THEN live \ {e.on}
                 ELSE live)

\* the callback of a call that returned
hidl_cb(o) == IF o.e = ABORT THEN <<>> ELSE << Ev("hidl_cb", o.ptr, 0, o.e) >>

\* a call on raw ended with outcome o
Returns(op, raw, usage, region, fence, o) ==
    /\ handles' = IF IsLive(raw) /\ o.e # ABORT
                  THEN [handles EXCEPT ![raw] = o.cb]
                  ELSE handles
    /\ aborted' = (o.e = ABORT)
    /\ lastCall' = Call(op, raw, NullNative, usage, region, fence,
                        IF IsLive(raw) THEN handles[raw] ELSE NoHandle,
                        o.e, o.ptr, o.ycbcr, o.log \o hidl_cb(o))
    /\ UNCHANGED <<m_featureInfo, m_physAddrToOffset, clones, mappings, constructed,
                   elsewhere>>

\* IMapper::importBuffer, given one of the native handles hhs:
\* hidl_cb(Error3::NONE, imported) or hidl_cb(e, nullptr)
importBuffer(hhs) ==
    /\ constructed
    /\ ~aborted
    /\ \E nh \in hhs :
       \E h \in {0} \cup {s \in Slots : handles[s] = NoHandle} :
       \E o \in importBufferImpl(nh, h) :
          LET imported == IF o.e = NONE THEN h ELSE NullRaw
              callback == IF o.e = ABORT THEN <<>>
                          ELSE << Ev("hidl_cb", imported, 0, o.e) >>
          IN  /\ handles' = IF o.e = NONE THEN [handles EXCEPT ![h] = o.cb]
                            ELSE handles
              /\ clones' = ClonesAfter(o.log, clones)
              /\ mappings' = MappingsAfter(o.log, mappings)
              /\ aborted' = (o.e = ABORT)
              /\ lastCall' = Call("importBuffer", imported,
                                  nh, 0, Rect(0, 0, 0, 0), NoFence, NoHandle,
                                  o.e, NullPtr, NoLayout, o.log \o callback)
              /\ UNCHANGED <<m_featureInfo, m_physAddrToOffset, constructed, elsewhere>>

\* IMapper::lock, its arguments taken from the given sets
lock(cpuUsages, accessRegions, acquireFences) ==
    /\ constructed
    /\ ~aborted
    /\ \E raw \in RawArgs, cpuUsage \in cpuUsages, accessRegion \in accessRegions,
          acquireFence \in acquireFences :
       \E o \in lockImpl(raw, cpuUsage, accessRegion, acquireFence) :
          Returns("lock", raw, cpuUsage, accessRegion, acquireFence, o)

\* IMapper::lockYCbCr, its arguments taken from the given sets
lockYCbCr(cpuUsages, accessRegions, acquireFences) ==
    /\ constructed
    /\ ~aborted
    /\ \E raw \in RawArgs, cpuUsage \in cpuUsages, accessRegion \in accessRegions,
          acquireFence \in acquireFences :
       \E o \in lockYCbCrImpl(raw, cpuUsage, accessRegion, acquireFence) :
          Returns("lockYCbCr", raw, cpuUsage, accessRegion, acquireFence, o)

\* IMapper::importBuffer
ImportBuffer == importBuffer(NativeHandles)

\* IMapper::freeBuffer
FreeBuffer ==
    /\ constructed
    /\ ~aborted
    /\ \E raw \in RawArgs :
          /\ handles' = IF IsLive(raw) THEN [handles EXCEPT ![raw] = NoHandle]
                        ELSE handles
          /\ clones' = ClonesAfter(freeBuffer(raw).log, clones)
          /\ mappings' = MappingsAfter(freeBuffer(raw).log, mappings)
          /\ lastCall' = Call("freeBuffer", raw, NullNative, 0, Rect(0, 0, 0, 0),
                              NoFence,
                              IF IsLive(raw) THEN handles[raw] ELSE NoHandle,
                              freeBuffer(raw).e, NullPtr, NoLayout,
                              freeBuffer(raw).log)
          /\ UNCHANGED <<aborted, m_featureInfo, m_physAddrToOffset, constructed,
                         elsewhere>>

\* IMapper::lock
Lock == lock(Usages, Regions, Fences)

\* IMapper::lockYCbCr
LockYCbCr == lockYCbCr(Usages, Regions, Fences)

\* IMapper::unlock
Unlock ==
    /\ constructed
    /\ ~aborted
    /\ \E raw \in RawArgs :
          Returns("unlock", raw, 0, Rect(0, 0, 0, 0), NoFence, unlockImpl(raw))

\* the capability flags capability negotiation can leave in the connection;
\* the two flags are read on different branches of lockHostImpl
FeatureInfos == { [hasYUVCache |-> TRUE, hasReadColorBufferDma |-> FALSE],
                  [hasYUVCache |-> FALSE, hasReadColorBufferDma |-> TRUE] }

\* m_physAddrToOffset = bufferBits.physAddr() - bufferBits.offset(): the
\* values the probe block of the constructor can give
PhysAddrToOffsets == {4096}

\* the mapper after construction, with room for the clones of n imports
Constructed(n) ==
    /\ handles = [h \in 1..n |-> NoHandle]
    /\ m_featureInfo \in FeatureInfos
    /\ m_physAddrToOffset \in PhysAddrToOffsets
    /\ clones = {}
    /\ mappings = {}
    /\ aborted = FALSE
    /\ lastCall = NoCall
    /\ constructed = TRUE
    /\ description = NoDescription
    /\ connections = NoConnections
    /\ threads = NoThreads

\* the mapper after construction: no handle imported yet
Init == Constructed(1)

Next ==
    \/ ImportBuffer
    \/ FreeBuffer
    \/ Lock
    \/ LockYCbCr
    \/ Unlock

Spec == Init /\ [][Next]_vars

\* The mapper used for the plane layout alone: a buffer of any format and
\* size has been imported, and is locked with lockYCbCr for reading and
\* writing, without fence, and unlocked.
LayoutInit ==
    /\ \E c \in LayoutHandles :
          handles = [h \in 1..1 |-> [c EXCEPT !.bufferPtr = MappedPtr(h)]]
    /\ m_featureInfo \in FeatureInfos
    /\ m_physAddrToOffset \in PhysAddrToOffsets
    /\ clones = {1}
    /\ mappings = {MappedPtr(1)}
    /\ aborted = FALSE
    /\ lastCall = NoCall
    /\ constructed = TRUE
    /\ description = NoDescription
    /\ connections = NoConnections
    /\ threads = NoThreads

LayoutLockYCbCr ==
    lockYCbCr({CPU_READ_OFTEN + CPU_WRITE_OFTEN}, {Rect(0, 0, 1, 1)}, {NoFence})

LayoutNext ==
    \/ LayoutLockYCbCr
    \/ Unlock

LayoutSpec == LayoutInit /\ [][LayoutNext]_vars

\* The mapper used on two clones at a time: a native handle of a buffer with
\* a host handle and one of a buffer without are imported, each as often as
\* there is room, and the clones are locked without fence, unlocked and
\* freed.
PairNativeHandles ==
    { [kind |-> "cb",
       cb |-> cb_handle_30_t(CPU_READ_OFTEN + CPU_WRITE_OFTEN + GPU_TEXTURE,
                             64, 64, 0, 128, 7, "RGBA_8888", 4, 2, ForeignPtr)],
      [kind |-> "cb",
       cb |-> cb_handle_30_t(CPU_READ_OFTEN + CPU_WRITE_OFTEN,
                             64, 64, 0, 256, 0, "YV12", 4, 2, NullPtr)] }

PairInit == Constructed(2)

PairImportBuffer == importBuffer(PairNativeHandles)

PairLock ==
    lock({CPU_READ_RARELY, CPU_READ_OFTEN + CPU_WRITE_OFTEN}, {Rect(1, 0, 2, 1)},
         {NoFence})

PairNext ==
    \/ PairImportBuffer
    \/ PairLock
    \/ Unlock
    \/ FreeBuffer

PairSpec == PairInit /\ [][PairNext]_vars

----------------------------------------------------------------------------
(* IMapper::isSupported *)

\* BufferUsage bits read by needGpuBuffer and isSupportedImpl
GPU_RENDER_TARGET == 512
COMPOSER_OVERLAY == 2048
COMPOSER_CLIENT_TARGET == 4096
VIDEO_DECODER == 4194304
GPU_DATA_BUFFER == 16777216

\* static_cast<int>(descriptor.format) == kOMX_COLOR_FormatYUV420Planar
kOMX_COLOR_FormatYUV420Planar == "OMX_COLOR_FormatYUV420Planar"

\* A usage of a descriptor is 64 bits wide: it is kept as the set of the
\* positions of its one bits.  The positions of the one bits of a mask:
Bits(mask) == { b \in 0..30 : (mask \div (2 ^ b)) % 2 = 1 }

\* the bit positions of a uint64_t and of its conversion to uint32_t
UsageBits == 0..63
uint32_t(usage64) == usage64 \cap (0..31)

\* return usage & (GPU_TEXTURE | GPU_RENDER_TARGET | COMPOSER_OVERLAY
\*                 | COMPOSER_CLIENT_TARGET | GPU_DATA_BUFFER);
needGpuBuffer(usage) ==
    usage \cap Bits(GPU_TEXTURE + GPU_RENDER_TARGET + COMPOSER_OVERLAY
                    + COMPOSER_CLIENT_TARGET + GPU_DATA_BUFFER) # {}

\* ((one64 << (to - from + 1)) - 1) << from
ones(from, to) == from..to

\* BufferUsage bits that must be zero
kReservedUsage == {10} \cup {13} \cup {19} \cup {21} \cup ones(25, 27) \cup ones(32, 47)

\* isSupportedImpl that accepts the formats the host cannot render whatever
\* the usage
isSupportedImpl_IgnoresGpuUsage(descriptor) ==
    IF descriptor.width = 0 THEN FALSE
    ELSE IF descriptor.height = 0 THEN FALSE
    ELSE IF descriptor.layerCount # 1 THEN FALSE
    ELSE IF descriptor.usage \cap kReservedUsage # {} THEN FALSE
    ELSE LET usage == uint32_t(descriptor.usage)
         IN  IF descriptor.format \in {"RGBA_8888", "RGBX_8888", "BGRA_8888", "RGB_565",
                                       "RGBA_FP16", "RGBA_1010102", "YV12",
                                       "YCBCR_420_888", "YCBCR_P010"}
             THEN TRUE
             ELSE IF descriptor.format = "IMPLEMENTATION_DEFINED" THEN FALSE
             ELSE IF descriptor.format \in {"RGB_888", "YCRCB_420_SP", "RAW16", "Y16",
                                            "BLOB"}
             THEN TRUE
             ELSE IF descriptor.format = kOMX_COLOR_FormatYUV420Planar
             THEN usage \cap Bits(VIDEO_DECODER) # {}
             ELSE FALSE

\* isSupportedImpl(descriptor)
isSupportedImpl(descriptor) ==
    IF descriptor.width = 0 THEN FALSE
    ELSE IF descriptor.height = 0 THEN FALSE
    ELSE IF descriptor.layerCount # 1 THEN FALSE
    ELSE IF descriptor.usage \cap kReservedUsage # {} THEN FALSE
    ELSE LET usage == uint32_t(descriptor.usage)
         IN  IF descriptor.format \in {"RGBA_8888", "RGBX_8888", "BGRA_8888", "RGB_565",
                                       "RGBA_FP16", "RGBA_1010102", "YV12",
                                       "YCBCR_420_888", "YCBCR_P010"}
             THEN TRUE
             ELSE IF descriptor.format = "IMPLEMENTATION_DEFINED" THEN FALSE
             ELSE IF descriptor.format \in {"RGB_888", "YCRCB_420_SP", "RAW16", "Y16",
                                            "BLOB"}
             THEN ~needGpuBuffer(usage)
             ELSE IF descriptor.format = kOMX_COLOR_FormatYUV420Planar
             THEN usage \cap Bits(VIDEO_DECODER) # {}
             ELSE FALSE

\* IMapper::isSupported: hidl_cb(Error3::NONE, isSupportedImpl(description))
IsSupported ==
    /\ constructed
    /\ ~aborted
    /\ description # NoDescription
    /\ lastCall' = [op |-> "isSupported", descriptor |-> description,
                    result |-> NONE, supported |-> isSupportedImpl(description),
                    log |-> << Ev("hidl_cb", NullRaw, 0, NONE) >>]
    /\ UNCHANGED <<handles, m_featureInfo, m_physAddrToOffset, clones, mappings,
                   aborted, constructed, elsewhere>>

\* the formats of the descriptors: the cases of the switch of
\* isSupportedImpl, the OMX planar format of its default branch, and a
\* PixelFormat the switch does not name
DescriptorFormats ==
    {"RGBA_8888", "RGBX_8888", "BGRA_8888", "RGB_565", "RGBA_FP16", "RGBA_1010102",
     "YV12", "YCBCR_420_888", "YCBCR_P010", "IMPLEMENTATION_DEFINED", "RGB_888",
     "YCRCB_420_SP", "RAW16", "Y16", "BLOB", kOMX_COLOR_FormatYUV420Planar,
     "YCBCR_422_SP"}

\* the usages of the descriptors: no bit, every single bit, and some pairs
\* of the bits the check reads with other bits
DescriptorUsages ==
    {{}} \cup { {b} : b \in UsageBits }
         \cup { {0, 5}, {1, 22}, {8, 22}, {9, 11}, {12, 16}, {22, 24},
                {22, 33}, {8, 40}, {16, 20}, {24, 63}, {0, 1, 4, 5, 8} }

\* the BufferDescriptorInfo arguments of isSupported
BufferDescriptorInfo ==
    [width : {0, 64}, height : {0, 48}, layerCount : {0, 1, 2},
     format : DescriptorFormats, usage : DescriptorUsages]

\* a constructed mapper and a client about to ask about one description
SupportInit ==
    /\ handles = [h \in 1..1 |-> NoHandle]
    /\ m_featureInfo \in FeatureInfos
    /\ m_physAddrToOffset \in PhysAddrToOffsets
    /\ clones = {}
    /\ mappings = {}
    /\ aborted = FALSE
    /\ lastCall = NoCall
    /\ constructed = TRUE
    /\ description \in BufferDescriptorInfo
    /\ connections = NoConnections
    /\ threads = NoThreads

SupportNext == IsSupported

SupportSpec == SupportInit /\ [][SupportNext]_vars

-----------------------------------------------------------------------------

(* HostConnection and ExtendedRCEncoderContext *)

\* the connections one calling context opens
MaxConnections == 2

\* the calling contexts (threads) of HostConnection::getOrCreate
Contexts == {1, 2}

\* enum SyncImpl, in its order: hasNativeSync compares with >=
SYNC_IMPL_NONE == 0
SYNC_IMPL_NATIVE_SYNC_V2 == 1
SYNC_IMPL_NATIVE_SYNC_V3 == 2
SYNC_IMPL_NATIVE_SYNC_V4 == 3

\* EmulatorFeatureInfo m_featureInfo of an ExtendedRCEncoderContext, as far
\* as the capability queries read it
EmulatorFeatureInfo(syncImpl, dmaImpl, glesMaxVersion, hostComposition, yuvCache, readDma) ==
    [syncImpl |-> syncImpl, dmaImpl |-> dmaImpl, glesMaxVersion |-> glesMaxVersion,
     hostComposition |-> hostComposition, hasYUVCache |-> yuvCache,
     hasReadColorBufferDma |-> readDma]

\* what capability negotiation can leave in m_featureInfo
NegotiatedInfos ==
    { EmulatorFeatureInfo(SYNC_IMPL_NONE, "DMA_IMPL_NONE", "GLES_MAX_VERSION_2",
                          "HOST_COMPOSITION_NONE", FALSE, FALSE),
      EmulatorFeatureInfo(SYNC_IMPL_NATIVE_SYNC_V4, "DMA_IMPL_v1", "GLES_MAX_VERSION_3_1",
                          "HOST_COMPOSITION_V2", TRUE, TRUE) }

\* the capability queries of ExtendedRCEncoderContext
CapabilityQueries(featureInfo) ==
    [hasNativeSync |-> featureInfo.syncImpl >= SYNC_IMPL_NATIVE_SYNC_V2,
     hasNativeSyncV3 |-> featureInfo.syncImpl >= SYNC_IMPL_NATIVE_SYNC_V3,
     hasNativeSyncV4 |-> featureInfo.syncImpl >= SYNC_IMPL_NATIVE_SYNC_V4,
     hasHostCompositionV1 |-> featureInfo.hostComposition = "HOST_COMPOSITION_V1",
     hasHostCompositionV2 |-> featureInfo.hostComposition = "HOST_COMPOSITION_V2",
     hasYUVCache |-> featureInfo.hasYUVCache,
     getDmaVersion |-> featureInfo.dmaImpl,
     getGLESMaxVersion |-> featureInfo.glesMaxVersion,
     hasReadColorBufferDma |-> featureInfo.hasReadColorBufferDma]

\* void setSyncImpl(SyncImpl syncImpl) { m_featureInfo.syncImpl = syncImpl; }
setSyncImpl(featureInfo, syncImpl) == [featureInfo EXCEPT !.syncImpl = syncImpl]

\* void setDmaImpl(DmaImpl dmaImpl) { m_featureInfo.dmaImpl = dmaImpl; }
setDmaImpl(featureInfo, dmaImpl) == [featureInfo EXCEPT !.dmaImpl = dmaImpl]

\* void setHostComposition(HostComposition hostComposition)
setHostComposition(featureInfo, hostComposition) ==
    [featureInfo EXCEPT !.hostComposition = hostComposition]

\* void setGLESMaxVersion(GLESMaxVersion ver) { m_featureInfo.glesMaxVersion = ver; }
setGLESMaxVersion(featureInfo, ver) == [featureInfo EXCEPT !.glesMaxVersion = ver]

\* a context without a connection, and the connection of a context: which
\* instance it is, how often capabilities were negotiated for it, and the
\* m_featureInfo of its render-control encoder
NoConnection == [instance |-> 0]
HostConnection(instance, negotiations, featureInfo) ==
    [instance |-> instance, negotiations |-> negotiations, featureInfo |-> featureInfo]

\* getOrCreate that opens a connection whether or not the context has one
getOrCreate_AlwaysConnects(ctx, opened, negotiated) ==
    IF ~opened
    THEN [connections |-> connections, returned |-> NoConnection.instance,
          log |-> << Ev("connect", ctx, 0, "fail") >>]
    ELSE LET instance == connections[ctx].created + 1
         IN  [connections |->
                [connections EXCEPT ![ctx] =
                    [created |-> instance,
                     conn |-> HostConnection(instance, 1, negotiated)]],
              returned |-> instance,
              log |-> << Ev("connect", ctx, 0, "ok"),
                         Ev("negotiate", instance, 0, "ok") >>]

\* HostConnection::getOrCreate(capset_id) called from context ctx, when the
\* transport opens or not and the host offers the capabilities negotiated
getOrCreate(ctx, opened, negotiated) ==
    IF connections[ctx].conn # NoConnection
    THEN [connections |-> connections, returned |-> connections[ctx].conn.instance,
          log |-> <<>>]
    ELSE IF ~opened
    THEN [connections |-> connections, returned |-> NoConnection.instance,
          log |-> << Ev("connect", ctx, 0, "fail") >>]
    ELSE LET instance == connections[ctx].created + 1
         IN  [connections |->
                [connections EXCEPT ![ctx] =
                    [created |-> instance,
                     conn |-> HostConnection(instance, 1, negotiated)]],
              returned |-> instance,
              log |-> << Ev("connect", ctx, 0, "ok"),
                         Ev("negotiate", instance, 0, "ok") >>]

\* the record of a call made from a context: before is the connection
\* getOrCreate found registered for it
ConnCall(op, ctx, arg, before, returned, log) ==
    [op |-> op, ctx |-> ctx, arg |-> arg, before |-> before, result |-> NONE,
     returned |-> returned, log |-> log]

mapperState == <<handles, m_featureInfo, m_physAddrToOffset, clones, mappings, aborted,
                 constructed, description, threads>>

GetOrCreate ==
    \E ctx \in Contexts : \E opened \in BOOLEAN : \E negotiated \in NegotiatedInfos :
       LET o == getOrCreate(ctx, opened, negotiated)
       IN  /\ o.connections[ctx].created <= MaxConnections
           /\ connections' = o.connections
           /\ lastCall' = ConnCall("getOrCreate", ctx, 0, connections[ctx].conn,
                                   o.returned, o.log)
           /\ UNCHANGED mapperState

\* HostConnection::exit() called from context ctx
Exit ==
    \E ctx \in Contexts :
       /\ connections' = [connections EXCEPT ![ctx].conn = NoConnection]
       /\ lastCall' = ConnCall("exit", ctx, 0, NoConnection, NoConnection.instance, <<>>)
       /\ UNCHANGED mapperState

\* rcEncoder()->setSyncImpl(arg) on the connection of a context
SetSyncImpl ==
    \E ctx \in Contexts : \E arg \in {SYNC_IMPL_NONE, SYNC_IMPL_NATIVE_SYNC_V3} :
       /\ connections[ctx].conn # NoConnection
       /\ connections' = [connections EXCEPT ![ctx].conn.featureInfo = setSyncImpl(@, arg)]
       /\ lastCall' = ConnCall("setSyncImpl", ctx, arg, NoConnection,
                               connections[ctx].conn.instance, <<>>)
       /\ UNCHANGED mapperState

\* rcEncoder()->setDmaImpl(arg) on the connection of a context
SetDmaImpl ==
    \E ctx \in Contexts : \E arg \in {"DMA_IMPL_NONE", "DMA_IMPL_v1"} :
       /\ connections[ctx].conn # NoConnection
       /\ connections' = [connections EXCEPT ![ctx].conn.featureInfo = setDmaImpl(@, arg)]
       /\ lastCall' = ConnCall("setDmaImpl", ctx, arg, NoConnection,
                               connections[ctx].conn.instance, <<>>)
       /\ UNCHANGED mapperState

\* rcEncoder()->setHostComposition(arg) on the connection of a context
SetHostComposition ==
    \E ctx \in Contexts : \E arg \in {"HOST_COMPOSITION_V1", "HOST_COMPOSITION_V2"} :
       /\ connections[ctx].conn # NoConnection
       /\ connections' = [connections EXCEPT ![ctx].conn.featureInfo = setHostComposition(@, arg)]
       /\ lastCall' = ConnCall("setHostComposition", ctx, arg, NoConnection,
                               connections[ctx].conn.instance, <<>>)
       /\ UNCHANGED mapperState

\* rcEncoder()->setGLESMaxVersion(arg) on the connection of a context
SetGLESMaxVersion ==
    \E ctx \in Contexts : \E arg \in {"GLES_MAX_VERSION_2", "GLES_MAX_VERSION_3_1"} :
       /\ connections[ctx].conn # NoConnection
       /\ connections' = [connections EXCEPT ![ctx].conn.featureInfo = setGLESMaxVersion(@, arg)]
       /\ lastCall' = ConnCall("setGLESMaxVersion", ctx, arg, NoConnection,
                               connections[ctx].conn.instance, <<>>)
       /\ UNCHANGED mapperState

\* a process in which no context has asked for a connection yet
ConnInit ==
    /\ handles = [h \in 1..1 |-> NoHandle]
    /\ m_featureInfo \in FeatureInfos
    /\ m_physAddrToOffset \in PhysAddrToOffsets
    /\ clones = {}
    /\ mappings = {}
    /\ aborted = FALSE
    /\ lastCall = NoCall
    /\ constructed = TRUE
    /\ description = NoDescription
    /\ connections = [ctx \in Contexts |-> [created |-> 0, conn |-> NoConnection]]
    /\ threads = NoThreads

ConnNext ==
    \/ GetOrCreate
    \/ Exit
    \/ SetSyncImpl
    \/ SetDmaImpl
    \/ SetHostComposition
    \/ SetGLESMaxVersion

ConnSpec == ConnInit /\ [][ConnNext]_vars

-----------------------------------------------------------------------------

(* GoldfishMapper::GoldfishMapper *)

\* m_physAddrToOffset before the constructor has assigned it
NotComputed == -1

\* the blocks hostMalloc(&bufferBits, 256) can hand out: physAddr() and
\* offset() of the block
ProbeBlocks ==
    { [physAddr |-> base + offset, offset |-> offset] :
        base \in {4096, 8192}, offset \in {0, 256} }

\* a constructor that goes on when hostMalloc fails, with the physAddr()
\* and offset() of a block that was never allocated
GoldfishMapper_IgnoresMallocFailure(opened, res, bufferBits) ==
    IF ~opened
    THEN [e |-> ABORT, physAddrToOffset |-> NotComputed,
          log |-> << Ev("is_opened", 0, 0, "fail") >>]
    ELSE IF res # "ok"
    THEN [e |-> NONE, physAddrToOffset |-> 0,
          log |-> << Ev("is_opened", 0, 0, "ok"),
                     Ev("hostMalloc", 0, 0, "fail"),
                     Ev("hostFree", 0, 0, "ok") >>]
    ELSE [e |-> NONE,
          physAddrToOffset |-> bufferBits.physAddr - bufferBits.offset,
          log |-> << Ev("is_opened", 0, 0, "ok"),
                     Ev("hostMalloc", bufferBits.physAddr, bufferBits.offset, "ok"),
                     Ev("hostFree", bufferBits.physAddr, bufferBits.offset, "ok") >>]

\* GoldfishMapper(): the allocator opens or not, hostMalloc answers res and
\* hands out bufferBits; the trace has physAddr() and offset() of the block
\* hostMalloc and hostFree were called with
GoldfishMapper(opened, res, bufferBits) ==
    IF ~opened
    THEN [e |-> ABORT, physAddrToOffset |-> NotComputed,
          log |-> << Ev("is_opened", 0, 0, "fail") >>]
    ELSE IF res # "ok"
    THEN [e |-> ABORT, physAddrToOffset |-> NotComputed,
          log |-> << Ev("is_opened", 0, 0, "ok"),
                     Ev("hostMalloc", 0, 0, "fail") >>]
    ELSE [e |-> NONE,
          physAddrToOffset |-> bufferBits.physAddr - bufferBits.offset,
          log |-> << Ev("is_opened", 0, 0, "ok"),
                     Ev("hostMalloc", bufferBits.physAddr, bufferBits.offset, "ok"),
                     Ev("hostFree", bufferBits.physAddr, bufferBits.offset, "ok") >>]

\* HIDL_FETCH_IMapper: new GoldfishMapper
Construct ==
    /\ ~constructed
    /\ ~aborted
    /\ \E opened \in BOOLEAN : \E res \in {"ok", "fail"} : \E bufferBits \in ProbeBlocks :
          LET o == GoldfishMapper(opened, res, bufferBits)
          IN  /\ constructed' = (o.e = NONE)
              /\ aborted' = (o.e = ABORT)
              /\ m_physAddrToOffset' = o.physAddrToOffset
              /\ lastCall' = Call("GoldfishMapper", NullRaw, NullNative, 0,
                                  Rect(0, 0, 0, 0), NoFence, NoHandle, o.e, NullPtr,
                                  NoLayout, o.log)
              /\ UNCHANGED <<handles, m_featureInfo, clones, mappings, elsewhere>>

\* the process before HIDL_FETCH_IMapper
CtorInit ==
    /\ handles = [h \in 1..1 |-> NoHandle]
    /\ m_featureInfo \in FeatureInfos
    /\ m_physAddrToOffset = NotComputed
    /\ clones = {}
    /\ mappings = {}
    /\ aborted = FALSE
    /\ lastCall = NoCall
    /\ constructed = FALSE
    /\ description = NoDescription
    /\ connections = NoConnections
    /\ threads = NoThreads

CtorNext ==
    \/ Construct
    \/ PairImportBuffer
    \/ PairLock
    \/ Unlock
    \/ FreeBuffer

CtorSpec == CtorInit /\ [][CtorNext]_vars

-----------------------------------------------------------------------------

(* Two binder threads in lockImpl on one handle *)

\* lockImpl takes no lock and the handle's fields are plain integers: a
\* thread reads cb->lockedUsage (289), waits and synchronises (304-313) and
\* only then writes the lock state (315), and another thread can run
\* between any two of these.  The racing reads and writes are undefined
\* behaviour; the outcomes taken here are those of the two threads' reads
\* and writes in some order.
Threads == {1, 2}

RaceRaw == 1

Idle == [pc |-> "idle", usage |-> 0, region |-> Rect(0, 0, 0, 0), read |-> -1,
         result |-> "none", log |-> <<>>]

\* the first half of setLocked: the four region fields (261-271)
setLockedRegion(cb, checkedUsage, accessRegion) ==
    IF BitAnd(checkedUsage, CPU_WRITE_MASK) # 0
    THEN [cb EXCEPT !.lockedLeft = accessRegion.left,
                    !.lockedTop = accessRegion.top,
                    !.lockedWidth = accessRegion.width,
                    !.lockedHeight = accessRegion.height]
    ELSE [cb EXCEPT !.lockedLeft = 0,
                    !.lockedTop = 0,
                    !.lockedWidth = cb.width,
                    !.lockedHeight = cb.height]

\* the second half of setLocked: cb->lockedUsage = checkedUsage (272)
setLockedUsage(cb, checkedUsage) == [cb EXCEPT !.lockedUsage = checkedUsage]

raceFrame == <<m_featureInfo, m_physAddrToOffset, clones, mappings, aborted, lastCall,
               constructed, description, connections>>

\* thread t is given a lock call on the handle
RaceEnter(t) ==
    /\ threads[t].pc = "idle"
    /\ \E usage \in {CPU_READ_RARELY, CPU_READ_OFTEN + CPU_WRITE_OFTEN} :
       \E region \in Regions :
          threads' = [threads EXCEPT ![t] =
                         [Idle EXCEPT !.pc = "check", !.usage = usage, !.region = region]]
    /\ UNCHANGED <<handles, raceFrame>>

\* thread t makes the checks of lockImpl up to the fence wait (283-303)
RaceCheck(t) ==
    /\ threads[t].pc = "check"
    /\ LET e == lockImplChecks(RaceRaw, threads[t].usage)
       IN  threads' = [threads EXCEPT ![t].read = handles[RaceRaw].lockedUsage,
                                      ![t].pc = IF e = NONE THEN "sync" ELSE "done",
                                      ![t].result = IF e = NONE THEN "none" ELSE e]
    /\ UNCHANGED <<handles, raceFrame>>

\* thread t waits on the fence and synchronises with the host (304-313)
RaceSync(t) ==
    /\ threads[t].pc = "sync"
    /\ LET cb == handles[RaceRaw]
           checkedUsage == checkedUsageOf(threads[t].usage, cb)
       IN  \E w \in waitHidlFence(NoFence) :
           \E hs \in IF cb.hostHandle # 0
                     THEN lockHostImpl(cb, checkedUsage, threads[t].region)
                     ELSE { [e |-> NONE, log |-> <<>>] } :
              threads' = [threads EXCEPT
                            ![t].log = w.log \o hs.log,
                            ![t].pc = IF w.ret # 0 \/ hs.e # NONE THEN "done"
                                      ELSE "region",
                            ![t].result = IF w.ret # 0 THEN BAD_VALUE
                                          ELSE IF hs.e # NONE THEN hs.e ELSE "none"]
    /\ UNCHANGED <<handles, raceFrame>>

\* thread t writes the locked region (261-271)
RaceWriteRegion(t) ==
    /\ threads[t].pc = "region"
    /\ handles' = [handles EXCEPT ![RaceRaw] =
                     setLockedRegion(@, checkedUsageOf(threads[t].usage, @),
                                     threads[t].region)]
    /\ threads' = [threads EXCEPT ![t].pc = "usage"]
    /\ UNCHANGED raceFrame

\* thread t writes lockedUsage (272) and returns NONE (317-320)
RaceWriteUsage(t) ==
    /\ threads[t].pc = "usage"
    /\ handles' = [handles EXCEPT ![RaceRaw] =
                     setLockedUsage(@, checkedUsageOf(threads[t].usage, @))]
    /\ threads' = [threads EXCEPT ![t].pc = "done", ![t].result = NONE]
    /\ UNCHANGED raceFrame

\* a constructed mapper, a buffer imported and not locked, and two threads
\* that are not in a call
RaceInit ==
    /\ \E nh \in PairNativeHandles :
          handles = [h \in 1..1 |-> [nh.cb EXCEPT !.bufferPtr = MappedPtr(h)]]
    /\ m_featureInfo \in FeatureInfos
    /\ m_physAddrToOffset \in PhysAddrToOffsets
    /\ clones = {1}
    /\ mappings = {MappedPtr(1)}
    /\ aborted = FALSE
    /\ lastCall = NoCall
    /\ constructed = TRUE
    /\ description = NoDescription
    /\ connections = NoConnections
    /\ threads = [t \in Threads |-> Idle]

RaceNext ==
    \E t \in Threads :
       \/ RaceEnter(t)
       \/ RaceCheck(t)
       \/ RaceSync(t)
       \/ RaceWriteRegion(t)
       \/ RaceWriteUsage(t)

RaceSpec == RaceInit /\ [][RaceNext]_vars

-----------------------------------------------------------------------------

(* Vocabulary of the properties *)

LockOps == {"lock", "lockYCbCr"}

\* the CPU read/write bits the request and the handle's declared usage share
EffectiveUsage(requested, declared) ==
    BitAnd(BitAnd(requested, declared), CPU_READ_MASK + CPU_WRITE_MASK)

\* the lock state of a handle
LockedRegion(cb) == Rect(cb.lockedLeft, cb.lockedTop, cb.lockedWidth, cb.lockedHeight)
EmptyRegion == Rect(0, 0, 0, 0)

\* the calls of a trace that went to the host
HostCalls == {"rcColorBufferCacheFlush", "rcReadColorBufferYUV", "rcReadColorBuffer",
              "rcReadColorBufferDMA", "rcUpdateColorBufferDMA", "bindDmaDirectly"}

HasCall(log, call) == \E i \in 1..Len(log) : log[i].call = call

IsSyncWait(e) == e.call = "sync_wait"

\* what the sync_wait calls of a trace answered, in order
WaitResults(log) ==
    LET w == SelectSeq(log, IsSyncWait) IN [i \in 1..Len(w) |-> w[i].res]

----------------------------------------------------------------------------
(* Properties *)

\* C1: an unlock of a locked handle (a handle a lock or lockYCbCr succeeded
\* on and that was not unlocked since) returns NONE and leaves lockedUsage
\* and the locked region zero, with or without a push to the host.
C1_UnlockRoundTrip ==
    (/\ lastCall.op = "unlock"
     /\ lastCall.before # NoHandle
     /\ lastCall.before.lockedUsage # 0)
    => (/\ lastCall.result = NONE
        /\ handles[lastCall.raw].lockedUsage = 0
        /\ LockedRegion(handles[lastCall.raw]) = EmptyRegion)

\* an unlock right after a successful lock returned, and it pushed to the host
C1_Witness ==
    /\ lastCall.op = "unlock"
    /\ lastCall.result = NONE
    /\ HasCall(lastCall.log, "rcUpdateColorBufferDMA")
    /\ handles[lastCall.raw].lockedUsage = 0

\* C2: lock or lockYCbCr on a handle whose lockedUsage is not zero returns
\* BAD_VALUE and leaves the handle, its lockedUsage and locked region
\* included, as it was, whatever usage, region and fence are requested.
C2_RelockRejected ==
    (/\ lastCall.op \in LockOps
     /\ lastCall.before # NoHandle
     /\ lastCall.before.lockedUsage # 0)
    => (/\ lastCall.result = BAD_VALUE
        /\ handles[lastCall.raw] = lastCall.before)

\* a lock was refused on a handle that is locked
C2_Witness ==
    /\ lastCall.op \in LockOps
    /\ lastCall.result = BAD_VALUE
    /\ IsLive(lastCall.raw)
    /\ handles[lastCall.raw].lockedUsage # 0

\* C3: on one handle the successful calls alternate: lock / lockYCbCr
\* succeeds only on an unlocked handle and locks it, unlock succeeds only on
\* a locked handle and unlocks it, and no other call on a live handle
\* changes whether it is locked.
C3_LockUnlockAlternate ==
    [][ \A h \in Slots :
          IsLive(h) =>
            LET mine == lastCall'.raw = h /\ lastCall'.result = NONE
            IN  /\ (mine /\ lastCall'.op \in LockOps)
                   => (handles[h].lockedUsage = 0 /\ handles'[h].lockedUsage # 0)
                /\ (mine /\ lastCall'.op = "unlock")
                   => (handles[h].lockedUsage # 0 /\ handles'[h].lockedUsage = 0)
                /\ (~(mine /\ lastCall'.op \in LockOps \cup {"unlock"})
                    /\ handles'[h] # NoHandle)
                   => ((handles'[h].lockedUsage = 0) = (handles[h].lockedUsage = 0)) ]_vars

\* an unlock succeeded on a buffer that has no host handle
C3_Witness ==
    /\ lastCall.op = "unlock"
    /\ lastCall.result = NONE
    /\ handles[lastCall.raw].hostHandle = 0

\* C4: a handle whose lockedUsage is not zero has a mapped pointer and a
\* bufferSize greater than zero.
C4_LockedIsMapped ==
    \A h \in Slots :
        (IsLive(h) /\ handles[h].lockedUsage # 0)
        => (handles[h].bufferPtr # NullPtr /\ handles[h].bufferSize > 0)

\* a handle is locked
C4_Witness ==
    \E h \in Slots : IsLive(h) /\ handles[h].lockedUsage # 0

\* C5: lock on an unlocked handle with a usage whose intersection with the
\* declared usage and the CPU read/write masks is zero returns BAD_VALUE,
\* leaves the handle unlocked, and neither waits on the fence nor calls the
\* host.
C5_ZeroUsageRejected ==
    (/\ lastCall.op = "lock"
     /\ lastCall.before # NoHandle
     /\ lastCall.before.lockedUsage = 0
     /\ EffectiveUsage(lastCall.usage, lastCall.before.usage) = 0)
    => (/\ lastCall.result = BAD_VALUE
        /\ handles[lastCall.raw] = lastCall.before
        /\ \A i \in 1..Len(lastCall.log) :
             lastCall.log[i].call \notin HostCalls \cup {"sync_wait"})

\* lock was refused for its usage on a handle that could otherwise be
\* locked, with a fence given
C5_Witness ==
    /\ lastCall.op = "lock"
    /\ lastCall.result = BAD_VALUE
    /\ IsLive(lastCall.raw)
    /\ handles[lastCall.raw].lockedUsage = 0
    /\ handles[lastCall.raw].bufferSize > 0
    /\ handles[lastCall.raw].bufferPtr # NullPtr
    /\ handles[lastCall.raw].usage # GPU_TEXTURE
    /\ EffectiveUsage(lastCall.usage, handles[lastCall.raw].usage) = 0
    /\ lastCall.fence = hidl_handle(1, 0)

\* C6: after a successful lock or lockYCbCr lockedUsage is exactly the
\* requested usage intersected with the declared usage and the CPU
\* read/write masks; in every state lockedUsage is a subset of the declared
\* CPU read/write bits.
C6_LockedUsageIsEffective ==
    /\ (lastCall.op \in LockOps /\ lastCall.result = NONE)
       => handles[lastCall.raw].lockedUsage =
            EffectiveUsage(lastCall.usage, handles[lastCall.raw].usage)
    /\ \A h \in Slots :
         IsLive(h) =>
           BitAnd(handles[h].lockedUsage,
                  BitAnd(handles[h].usage, CPU_READ_MASK + CPU_WRITE_MASK))
             = handles[h].lockedUsage

\* a lock succeeded whose lockedUsage is neither the requested nor the
\* declared usage
C6_Witness ==
    /\ lastCall.op \in LockOps
    /\ lastCall.result = NONE
    /\ handles[lastCall.raw].lockedUsage # lastCall.usage
    /\ handles[lastCall.raw].lockedUsage # handles[lastCall.raw].usage

\* C7: after a successful lock or lockYCbCr the locked region is the
\* requested region when the effective usage has a CPU write bit, and
\* (0, 0, width, height) when it has none.
C7_LockedRegion ==
    (lastCall.op \in LockOps /\ lastCall.result = NONE)
    => LET cb == handles[lastCall.raw]
       IN  IF BitAnd(EffectiveUsage(lastCall.usage, cb.usage), CPU_WRITE_MASK) # 0
           THEN LockedRegion(cb) = lastCall.region
           ELSE LockedRegion(cb) = Rect(0, 0, cb.width, cb.height)

\* a read-only lock of a sub-rectangle succeeded
C7_Witness ==
    /\ lastCall.op \in LockOps
    /\ lastCall.result = NONE
    /\ BitAnd(handles[lastCall.raw].lockedUsage, CPU_WRITE_MASK) = 0
    /\ lastCall.region # Rect(0, 0, handles[lastCall.raw].width,
                              handles[lastCall.raw].height)

\* the fence handle is one waitHidlFence refuses, or the last sync_wait
\* of the call failed
FenceWaitFailed(c) ==
    \/ c.fence # NoFence /\ (c.fence.numFds > 1 \/ c.fence.numInts # 0)
    \/ LET w == WaitResults(c.log)
       IN  Len(w) > 0 /\ w[Len(w)] # "signaled"

\* the host cache flush of the call failed
HostSyncFailed(c) ==
    \E i \in 1..Len(c.log) :
        c.log[i].call = "rcColorBufferCacheFlush" /\ c.log[i].res = "fail"

\* the call neither waited on a descriptor nor called the host
NoWaitNoHost(c) ==
    \A i \in 1..Len(c.log) : c.log[i].call \notin HostCalls \cup {"sync_wait"}

C9_FenceTimeout ==
    lastCall.op = "lock" =>
      LET w == WaitResults(lastCall.log)
          cb == handles[lastCall.raw]
      IN  /\ (Len(w) > 0 /\ w[1] = "ETIME") => Len(w) = 2
          /\ (Len(w) = 2 /\ w[1] = "ETIME" /\ w[2] = "signaled")
             => /\ lastCall.result =
                     (IF HostSyncFailed(lastCall) THEN NO_RESOURCES ELSE NONE)
                /\ HostSyncFailed(lastCall) => cb.lockedUsage = 0
                /\ ~HostSyncFailed(lastCall)
                   => (cb.lockedUsage # 0 /\ lastCall.ptr = cb.bufferPtr)
          /\ (Len(w) > 0 /\ w[Len(w)] # "signaled")
             => (lastCall.result = BAD_VALUE /\ cb.lockedUsage = 0)

\* a lock succeeded although the bounded wait on its fence timed out
C9_Witness ==
    /\ lastCall.op = "lock"
    /\ lastCall.result = NONE
    /\ lastCall.fence = hidl_handle(1, 0)
    /\ Len(WaitResults(lastCall.log)) = 2

\* C10: in a lock or lockYCbCr given a fence, every host call, the write of
\* the lock state and the return of the pointer come after a sync_wait on
\* the fence that reported it signalled.
C10_FenceBeforeAccess ==
    (lastCall.op \in LockOps /\ lastCall.fence # NoFence
       /\ lastCall.fence.numFds >= 1)
    => \A i \in 1..Len(lastCall.log) :
         (\/ lastCall.log[i].call \in HostCalls \cup {"setLocked"}
          \/ (lastCall.log[i].call = "hidl_cb" /\ lastCall.log[i].res = NONE))
         => \E j \in 1..(i - 1) :
              /\ lastCall.log[j].call = "sync_wait"
              /\ lastCall.log[j].on = FenceFd
              /\ lastCall.log[j].res = "signaled"

\* a lockYCbCr with a fence synchronised with the host and succeeded
C10_Witness ==
    /\ lastCall.op = "lockYCbCr"
    /\ lastCall.result = NONE
    /\ lastCall.fence = hidl_handle(1, 0)
    /\ HasCall(lastCall.log, "rcColorBufferCacheFlush")

\* the calls of lockHostImpl that synchronise the buffer with the host
HostSyncSteps == {"rcColorBufferCacheFlush", "rcReadColorBufferYUV",
                  "rcReadColorBuffer", "rcReadColorBufferDMA"}

\* C11: when a host synchronisation step of a lock on a buffer with a host
\* handle fails, the cache flush or the read-back of the colour buffer, lock
\* returns NO_RESOURCES and the handle stays unlocked.
C11_HostSyncFailure ==
    (/\ lastCall.op = "lock"
     /\ lastCall.before # NoHandle
     /\ lastCall.before.hostHandle # 0
     /\ \E i \in 1..Len(lastCall.log) :
          lastCall.log[i].call \in HostSyncSteps /\ lastCall.log[i].res = "fail")
    => (/\ lastCall.result = NO_RESOURCES
        /\ handles[lastCall.raw].lockedUsage = 0)

\* the call left the handle it was made on as it was and pushed nothing to
\* the host
RefusedUntouched(c) ==
    /\ c.before # NoHandle => handles[c.raw] = c.before
    /\ \A i \in 1..Len(c.log) : c.log[i].call \notin HostCalls \cup {"clearLocked"}

\* C12 as stated: unlock returns BAD_BUFFER for a handle that is null,
\* unrecognized or of zero buffer size, locked or not, and BAD_VALUE for a
\* recognized handle of non-zero buffer size that is not locked; both leave
\* the lock state alone and push nothing to the host.
C12_UnlockErrorsAsStated ==
    lastCall.op = "unlock" =>
      LET cb == lastCall.before
      IN  /\ (lastCall.raw = NullRaw \/ cb = NoHandle)
             => (lastCall.result = BAD_BUFFER /\ RefusedUntouched(lastCall))
          /\ (cb # NoHandle /\ cb.bufferSize = 0)
             => (lastCall.result = BAD_BUFFER /\ RefusedUntouched(lastCall))
          /\ (cb # NoHandle /\ cb.bufferSize # 0 /\ cb.lockedUsage = 0)
             => (lastCall.result = BAD_VALUE /\ RefusedUntouched(lastCall))

\* C12: unlock returns BAD_BUFFER for a handle that is null or unrecognized,
\* and BAD_VALUE for a recognized handle that is not locked, whatever its
\* buffer size; both leave the lock state alone and push nothing to the host.
C12_UnlockErrors ==
    lastCall.op = "unlock" =>
      LET cb == lastCall.before
      IN  /\ (lastCall.raw = NullRaw \/ cb = NoHandle)
             => (lastCall.result = BAD_BUFFER /\ RefusedUntouched(lastCall))
          /\ (cb # NoHandle /\ cb.lockedUsage = 0)
             => (lastCall.result = BAD_VALUE /\ RefusedUntouched(lastCall))

\* unlock was refused on an unlocked handle of zero buffer size
C12_Witness ==
    /\ lastCall.op = "unlock"
    /\ lastCall.before # NoHandle
    /\ lastCall.before.bufferSize = 0
    /\ lastCall.before.lockedUsage = 0
    /\ lastCall.result = BAD_VALUE

\* C13: a successful unlock pushes the buffer to the host exactly when the
\* handle has a host handle and the lockedUsage the lock left in it has a CPU
\* write bit; the push comes before lockedUsage is cleared; the unlock of a
\* read-only lock makes no host call.
C13_UnlockPush ==
    (lastCall.op = "unlock" /\ lastCall.result = NONE)
    => LET cb == lastCall.before
           log == lastCall.log
           written == BitAnd(cb.lockedUsage, CPU_WRITE_MASK) # 0
       IN  /\ HasCall(log, "rcUpdateColorBufferDMA")
                <=> (cb.hostHandle # 0 /\ written)
           /\ \A i \in 1..Len(log) :
                log[i].call = "rcUpdateColorBufferDMA"
                => /\ log[i].on = cb.hostHandle
                   /\ \E j \in (i + 1)..Len(log) : log[j].call = "clearLocked"
                   /\ \A j \in 1..i : log[j].call # "clearLocked"
           /\ ~written => \A i \in 1..Len(log) : log[i].call \notin HostCalls

\* a read-only lock of a buffer with a host handle was unlocked
C13_Witness ==
    /\ lastCall.op = "unlock"
    /\ lastCall.result = NONE
    /\ lastCall.before.hostHandle # 0
    /\ lastCall.before.lockedUsage # 0
    /\ BitAnd(lastCall.before.lockedUsage, CPU_WRITE_MASK) = 0

\* the formats of the layout table of lockYCbCr
LayoutFormats == {"YCRCB_420_SP", "YV12", "YCBCR_420_888", "YCBCR_P010"}

IsEnvAnswer(e) == e.call \in HostSyncSteps \cup {"sync_wait"}

\* what the fence and the host answered during a call, in order
EnvAnswers(log) ==
    LET a == SelectSeq(log, IsEnvAnswer) IN [i \in 1..Len(a) |-> a[i].res]

IsPrefix(s, t) == Len(s) <= Len(t) /\ \A i \in 1..Len(s) : s[i] = t[i]

\* two calls met the same fence outcome and host outcome, as far as both asked
SameEnvironment(log1, log2) ==
    \/ IsPrefix(EnvAnswers(log1), EnvAnswers(log2))
    \/ IsPrefix(EnvAnswers(log2), EnvAnswers(log1))

\* the outcomes lockYCbCr has on the arguments of the lock just refused (a
\* refused lock leaves the handle as it found it) when the fence and the
\* host answer it as they answered the lock
SameCallAsYCbCr ==
    { y \in lockYCbCrImpl(lastCall.raw, lastCall.usage, lastCall.region,
                          lastCall.fence) :
        SameEnvironment(y.log, lastCall.log) }

\* C14 as stated: wherever lock fails in its steps 1 to 6, lockYCbCr on the
\* same handle state, usage, fence outcome and host outcome fails with the
\* same error, and lockYCbCr synchronises with the host before it computes
\* the plane layout.
C14_SameChainAsStated ==
    /\ (lastCall.op = "lock" /\ lastCall.result # NONE)
       => \A y \in SameCallAsYCbCr : y.e = lastCall.result
    /\ lastCall.op = "lockYCbCr"
       => \A i, j \in 1..Len(lastCall.log) :
            (/\ lastCall.log[i].call = "switch(format)"
             /\ lastCall.log[j].call \in HostCalls)
            => j < i

\* C14: wherever lock fails in its steps 1 to 5, lockYCbCr on the same handle
\* state, usage and fence outcome fails with the same error; lockYCbCr
\* computes the plane layout after the fence wait and before it synchronises
\* with the host, so where lock fails in step 6 with NO_RESOURCES lockYCbCr
\* fails with NO_RESOURCES on a handle of a format of the layout table, and
\* with BAD_BUFFER and no host call on a handle of any other format.
C14_SameChain ==
    /\ (lastCall.op = "lock" /\ lastCall.result # NONE)
       => \A y \in SameCallAsYCbCr :
            IF lastCall.result = NO_RESOURCES
                 /\ lastCall.before.format \notin LayoutFormats
            THEN /\ y.e = BAD_BUFFER
                 /\ \A i \in 1..Len(y.log) : y.log[i].call \notin HostCalls
            ELSE y.e = lastCall.result
    /\ lastCall.op = "lockYCbCr"
       => \A i, j \in 1..Len(lastCall.log) :
            (/\ lastCall.log[i].call = "switch(format)"
             /\ lastCall.log[j].call \in HostCalls \cup {"setLocked"})
            => i < j

\* lock failed at the host synchronisation on a YUV buffer, after a fence wait
C14_Witness ==
    /\ lastCall.op = "lock"
    /\ lastCall.result = NO_RESOURCES
    /\ lastCall.before.format \in LayoutFormats
    /\ HasCall(lastCall.log, "sync_wait")
    /\ SameCallAsYCbCr # {}

\* v rounded up to a multiple of a
RoundUp(v, a) == ((v + a - 1) \div a) * a

\* the layout table: the strides, the chroma step and the offsets of the Cb
\* (u) and Cr (v) planes of a buffer of one of the four YUV formats
LayoutTable(format, width, height) ==
    CASE format = "YCRCB_420_SP" ->
           [yStride |-> width, cStride |-> width, chromaStep |-> 2,
            vOffset |-> width * height, uOffset |-> width * height + 1]
      [] format = "YV12" ->
           LET ys == RoundUp(width, 16)
               cs == RoundUp(ys \div 2, 16)
           IN  [yStride |-> ys, cStride |-> cs, chromaStep |-> 1,
                vOffset |-> ys * height,
                uOffset |-> ys * height + (cs * height) \div 2]
      [] format = "YCBCR_420_888" ->
           LET cs == width \div 2
           IN  [yStride |-> width, cStride |-> cs, chromaStep |-> 1,
                uOffset |-> height * width,
                vOffset |-> height * width + (cs * height) \div 2]
      [] format = "YCBCR_P010" ->
           [yStride |-> 2 * width, cStride |-> 2 * width, chromaStep |-> 4,
            uOffset |-> height * 2 * width, vOffset |-> height * 2 * width + 2]

\* C15: a successful lockYCbCr hands out the layout of the table for the
\* format, width and height of the buffer, with y at the mapped pointer, cb
\* at uOffset and cr at vOffset from it; for YV12 17x10 that is yStride 32,
\* cStride 16, vOffset 320 and uOffset 400.
C15_PlaneLayout ==
    (lastCall.op = "lockYCbCr" /\ lastCall.result = NONE)
    => LET cb == lastCall.before
           base == cb.bufferPtr
           l == lastCall.ycbcr
       IN  /\ cb.format \in LayoutFormats
           /\ LET t == LayoutTable(cb.format, cb.width, cb.height)
              IN  l = [y |-> base, cb |-> base + t.uOffset, cr |-> base + t.vOffset,
                       yStride |-> t.yStride, cStride |-> t.cStride,
                       chromaStep |-> t.chromaStep]
           /\ (cb.format = "YV12" /\ cb.width = 17 /\ cb.height = 10)
              => l = [y |-> base, cb |-> base + 400, cr |-> base + 320,
                      yStride |-> 32, cStride |-> 16, chromaStep |-> 1]

\* lockYCbCr succeeded on a YV12 buffer of 17x10
C15_Witness ==
    /\ lastCall.op = "lockYCbCr"
    /\ lastCall.result = NONE
    /\ lastCall.before.format = "YV12"
    /\ lastCall.before.width = 17
    /\ lastCall.before.height = 10
    /\ lastCall.ycbcr.yStride = 32

\* C16: lockYCbCr on a handle whose format is not in the layout table never
\* succeeds: it leaves the handle as it was, hands out no layout and calls
\* the host for nothing; when the handle is unlocked, the usage effective,
\* the buffer sized and mapped and the fence signalled, it returns
\* BAD_BUFFER.
C16_UnsupportedFormat ==
    (/\ lastCall.op = "lockYCbCr"
     /\ lastCall.before # NoHandle
     /\ lastCall.before.format \notin LayoutFormats)
    => LET cb == lastCall.before
       IN  /\ lastCall.result # NONE
           /\ handles[lastCall.raw] = cb
           /\ lastCall.ycbcr = NoLayout
           /\ \A i \in 1..Len(lastCall.log) :
                lastCall.log[i].call \notin HostCalls \cup {"setLocked"}
           /\ (/\ cb.lockedUsage = 0
               /\ EffectiveUsage(lastCall.usage, cb.usage) # 0
               /\ cb.bufferSize # 0
               /\ cb.bufferPtr # NullPtr
               /\ ~FenceWaitFailed(lastCall))
              => lastCall.result = BAD_BUFFER

\* lockYCbCr was refused for the format of an RGBA buffer with a host handle,
\* after its fence had signalled
C16_Witness ==
    /\ lastCall.op = "lockYCbCr"
    /\ lastCall.result = BAD_BUFFER
    /\ lastCall.before # NoHandle
    /\ lastCall.before.format = "RGBA_8888"
    /\ lastCall.before.hostHandle # 0
    /\ lastCall.before.lockedUsage = 0
    /\ WaitResults(lastCall.log) = << "signaled" >>

\* the calls of a trace to call that answered res
Calls(log, call, res) ==
    { i \in 1..Len(log) : log[i].call = call /\ log[i].res = res }

\* the clone cloned at position i of a trace is closed and then deleted
\* later in it
Released(log, i) ==
    \E j, k \in 1..Len(log) :
        /\ i < j /\ j < k
        /\ log[j].call = "native_handle_close" /\ log[j].on = log[i].on
        /\ log[k].call = "native_handle_delete" /\ log[k].on = log[i].on

\* C17: an importBuffer that returns an error hands no handle to its
\* callback and leaves no clone and no mapping behind: BAD_BUFFER for a null
\* native handle and for a failed clone, BAD_BUFFER with the clone closed
\* and deleted for a native handle that is no cb_handle_30_t, NO_RESOURCES
\* with the clone closed and deleted for a failed memoryMap.
C17_FailedImport ==
    (lastCall.op = "importBuffer" /\ lastCall.result \notin {NONE, ABORT})
    => LET log == lastCall.log
           cloned == Calls(log, "native_handle_clone", "ok")
       IN  /\ lastCall.raw = NullRaw
           /\ log[Len(log)] = Ev("hidl_cb", NullRaw, 0, lastCall.result)
           /\ lastCall.result =
                (IF Calls(log, "memoryMap", "fail") # {} THEN NO_RESOURCES
                 ELSE BAD_BUFFER)
           /\ lastCall.nh.kind = "null" => (cloned = {} /\ Len(log) = 1)
           /\ Calls(log, "native_handle_clone", "fail") # {} => cloned = {}
           /\ \A i \in cloned : Released(log, i)
           /\ Cardinality(cloned) = Cardinality(Calls(log, "native_handle_delete", "ok"))
           /\ Calls(log, "memoryMap", "ok") = {}
           /\ clones = { h \in Slots : IsLive(h) }
           /\ mappings = { handles[h].bufferPtr :
                             h \in { s \in Slots : IsLive(s) /\ handles[s].mmapedSize > 0 } }

\* importBuffer failed because memoryMap failed
C17_Witness ==
    /\ lastCall.op = "importBuffer"
    /\ lastCall.result = NO_RESOURCES
    /\ Calls(lastCall.log, "memoryMap", "fail") # {}
    /\ clones = {}

\* C18: after a successful importBuffer the pointer of the handle is not null
\* exactly when its mmapedSize is greater than zero: it is the pointer
\* memoryMap returned when mmapedSize > 0, and null when mmapedSize is zero,
\* whatever pointer the native handle carried.
C18_PointerIffMapped ==
    (lastCall.op = "importBuffer" /\ lastCall.result = NONE)
    => LET cb == handles[lastCall.raw]
       IN  /\ (cb.bufferPtr # NullPtr) <=> (cb.mmapedSize > 0)
           /\ cb.mmapedSize > 0
              => (cb.bufferPtr = MappedPtr(lastCall.raw) /\ cb.bufferPtr \in mappings)

\* the mappings that are live are those of the live handles with
\* mmapedSize > 0, and the clones that are live are the live handles
MappingsAreOwned ==
    ~aborted =>
      /\ mappings = { handles[h].bufferPtr :
                        h \in { s \in Slots : IsLive(s) /\ handles[s].mmapedSize > 0 } }
      /\ clones = { h \in Slots : IsLive(h) }

\* what a freeBuffer step does
FreeStep ==
    lastCall'.op = "freeBuffer" =>
      LET raw == lastCall'.raw
          log == lastCall'.log
      IN  IF raw = NullRaw \/ ~IsLive(raw)
          THEN /\ lastCall'.result = BAD_BUFFER
               /\ log = <<>>
               /\ handles' = handles
               /\ clones' = clones
               /\ mappings' = mappings
          ELSE LET cb == handles[raw]
                   unmaps == Calls(log, "memoryUnmap", "ok")
               IN  /\ lastCall'.result = NONE
                   /\ handles' = [handles EXCEPT ![raw] = NoHandle]
                   /\ raw \in clones /\ clones' = clones \ {raw}
                   /\ \E j, k \in 1..Len(log) :
                        /\ j < k
                        /\ log[j] = Ev("native_handle_close", raw, 0, "ok")
                        /\ log[k] = Ev("native_handle_delete", raw, 0, "ok")
                        /\ \A i \in unmaps : i < j
                   /\ IF cb.mmapedSize > 0
                      THEN /\ Cardinality(unmaps) = 1
                           /\ \A i \in unmaps :
                                log[i] = Ev("memoryUnmap", cb.bufferPtr, cb.mmapedSize, "ok")
                           /\ cb.bufferPtr \in mappings
                           /\ mappings' = mappings \ {cb.bufferPtr}
                      ELSE /\ unmaps = {}
                           /\ mappings' = mappings

\* C19: freeBuffer returns BAD_BUFFER for a null or unrecognized handle and
\* changes nothing; for a recognized handle it unmaps the buffer exactly
\* when mmapedSize > 0, before it closes and deletes the native handle,
\* always deletes the handle and returns NONE.  Every mapping importBuffer
\* made is live until the freeBuffer of its handle, which unmaps it once.
C19_Free == []MappingsAreOwned /\ [][FreeStep]_vars

\* a mapped handle was freed and left no mapping behind
C19_Witness ==
    /\ lastCall.op = "freeBuffer"
    /\ lastCall.result = NONE
    /\ Calls(lastCall.log, "memoryUnmap", "ok") # {}
    /\ mappings = {}

\* a handle without the fields importBuffer and the lock calls write
Serialized(cb) ==
    [cb EXCEPT !.bufferPtr = NullPtr, !.lockedUsage = 0, !.lockedLeft = 0,
               !.lockedTop = 0, !.lockedWidth = 0, !.lockedHeight = 0]

\* two live clones of the same native handle
SameImport(g, h) ==
    /\ g # h /\ IsLive(g) /\ IsLive(h)
    /\ Serialized(handles[g]) = Serialized(handles[h])

\* two clones of one native handle have each a mapping of their own and the
\* same physical address
ClonesAreApart ==
    \A g, h \in Slots :
        SameImport(g, h) =>
          /\ handles[g].bufferPtr # handles[h].bufferPtr
          /\ handles[g].bufferPtr \in mappings
          /\ handles[h].bufferPtr \in mappings
          /\ getMmapedPhysAddr(handles[g].mmapedOffset)
               = getMmapedPhysAddr(handles[h].mmapedOffset)

\* every transfer of the call just made was bound to the mapped pointer of
\* the handle and to the physical address m_physAddrToOffset + mmapedOffset
TransfersUsePhysAddr ==
    \A i \in 1..Len(lastCall.log) :
        lastCall.log[i].call = "bindDmaDirectly"
        => /\ lastCall.log[i].on = lastCall.before.bufferPtr
           /\ lastCall.log[i].arg = m_physAddrToOffset + lastCall.before.mmapedOffset

\* a lock or unlock of one clone leaves every other clone as it was
OthersUntouched ==
    \A h \in Slots :
        (lastCall'.op \in LockOps \cup {"unlock"} /\ lastCall'.raw = h)
        => \A g \in Slots \ {h} : handles'[g] = handles[g]

\* C20: two imports of the same native handle give two clones with a mapped
\* pointer each, which differ, and a lock state each: locking or unlocking
\* one leaves the other as it was; the physical address bound for a host
\* transfer is m_physAddrToOffset + mmapedOffset, the same for both clones
\* whatever their pointers.
C20_IndependentImports ==
    [](ClonesAreApart /\ TransfersUsePhysAddr) /\ [][OthersUntouched]_vars

\* of two clones of one native handle the first was just locked with a
\* transfer from the host, and the second is not locked
C20_Witness ==
    /\ SameImport(1, 2)
    /\ lastCall.op = "lock"
    /\ lastCall.raw = 1
    /\ lastCall.result = NONE
    /\ HasCall(lastCall.log, "bindDmaDirectly")
    /\ handles[1].lockedUsage # 0
    /\ handles[2].lockedUsage = 0

\* C22: every importBuffer, lock, lockYCbCr, unlock and freeBuffer returns
\* one of NONE, BAD_BUFFER, BAD_VALUE and NO_RESOURCES, whatever the handle,
\* the usage and the capability flags; none ends the process.
C22_NoFatalAbort ==
    /\ ~aborted
    /\ lastCall.op \in {"importBuffer", "lock", "lockYCbCr", "unlock", "freeBuffer"}
       => lastCall.result \in Error3

\* C28: lock waits on a descriptor only when the acquire fence carries
\* exactly one file descriptor and no integer: without a fence handle it
\* does not wait and does not fail for the fence; with more than one
\* descriptor, or with an integer, it returns BAD_VALUE without waiting;
\* with a fence handle that has no descriptor it waits on nothing.
C28_FenceHandleShapes ==
    (/\ lastCall.op = "lock"
     /\ lockImplChecks(lastCall.raw, lastCall.usage) = NONE \/ lastCall.result = NONE)
    => LET f == lastCall.fence
           waited == HasCall(lastCall.log, "sync_wait")
       IN  /\ waited => (f # NoFence /\ f.numFds = 1 /\ f.numInts = 0)
           /\ f = NoFence => lastCall.result \in {NONE, NO_RESOURCES}
           /\ (f # NoFence /\ (f.numFds > 1 \/ f.numInts # 0))
              => lastCall.result = BAD_VALUE
           /\ (f # NoFence /\ f.numFds = 0) => ~waited

\* C29: freeBuffer of a handle that is locked, also of one locked for
\* writing that has a host handle, returns NONE, unmaps the buffer when it
\* is mapped, deletes the handle and makes no host call: what was written
\* under the lock is not pushed to the host.
C29_FreeWhileLocked ==
    (/\ lastCall.op = "freeBuffer"
     /\ lastCall.before # NoHandle
     /\ lastCall.before.lockedUsage # 0)
    => /\ lastCall.result = NONE
       /\ handles[lastCall.raw] = NoHandle
       /\ lastCall.raw \notin clones
       /\ lastCall.before.bufferPtr \notin mappings
       /\ Calls(lastCall.log, "memoryUnmap", "ok") # {}
            <=> lastCall.before.mmapedSize > 0
       /\ Calls(lastCall.log, "native_handle_delete", "ok") # {}
       /\ \A i \in 1..Len(lastCall.log) : lastCall.log[i].call \notin HostCalls

\* a buffer with a host handle was freed while locked for writing
C29_Witness ==
    /\ lastCall.op = "freeBuffer"
    /\ lastCall.result = NONE
    /\ lastCall.before # NoHandle
    /\ lastCall.before.hostHandle # 0
    /\ BitAnd(lastCall.before.lockedUsage, CPU_WRITE_MASK) # 0

\* the calls lockHostImpl makes for the host and the conversions after them
IsHostSync(e) ==
    e.call \in HostSyncSteps \cup {"bindDmaDirectly", "rgb888_to_yv12", "rgb888_to_yuv420p"}

\* the calls lockHostImpl is to make after the flush for a buffer cb locked
\* with the effective usage eff over region
ReadBackPath(cb, eff, region) ==
    LET yuv == cb.format \in {"YV12", "YCBCR_420_888"}
    IN  IF BitAnd(eff, CPU_READ_MASK) = 0 THEN <<>>
        ELSE IF yuv /\ m_featureInfo.hasYUVCache
        THEN << [call |-> "rcReadColorBufferYUV", arg |-> 0] >>
        ELSE IF yuv
        THEN << [call |-> "rcReadColorBuffer", arg |-> 0],
                [call |-> IF cb.format = "YV12" THEN "rgb888_to_yv12"
                                                ELSE "rgb888_to_yuv420p",
                 arg |-> Corners(region.left, region.top,
                                 region.left + region.width - 1,
                                 region.top + region.height - 1)] >>
        ELSE IF m_featureInfo.hasReadColorBufferDma
        THEN << [call |-> "bindDmaDirectly",
                 arg |-> m_physAddrToOffset + cb.mmapedOffset],
                [call |-> "rcReadColorBufferDMA", arg |-> 0] >>
        ELSE << [call |-> "rcReadColorBuffer", arg |-> 0] >>

\* C27: a lock of a buffer with a host handle that gets to the host flushes
\* the host cache exactly once and before any other host call; it reads the
\* colour buffer back exactly when the effective usage has a CPU read bit;
\* the read-back is rcReadColorBufferYUV for a YUV format with the YUV
\* cache, rcReadColorBuffer followed by the conversion over the requested
\* region for a YUV format without it, rcReadColorBufferDMA for another
\* format with the DMA read-back, and rcReadColorBuffer otherwise.
C27_ReadBackPath ==
    (/\ lastCall.op \in LockOps
     /\ lastCall.before # NoHandle
     /\ lastCall.before.hostHandle # 0
     /\ lastCall.result = NONE \/ \E i \in 1..Len(lastCall.log) : IsHostSync(lastCall.log[i]))
    => LET sync == SelectSeq(lastCall.log, IsHostSync)
           eff == EffectiveUsage(lastCall.usage, lastCall.before.usage)
           path == ReadBackPath(lastCall.before, eff, lastCall.region)
       IN  /\ Len(sync) > 0
           /\ sync[1].call = "rcColorBufferCacheFlush"
           /\ \A i \in 2..Len(sync) : sync[i].call # "rcColorBufferCacheFlush"
           /\ sync[1].res = "fail" => Len(sync) = 1
           /\ sync[1].res = "ok" =>
                /\ Len(sync) = 1 + Len(path)
                /\ \A i \in 1..Len(path) :
                     /\ sync[i + 1].call = path[i].call
                     /\ sync[i + 1].arg = path[i].arg

\* a YUV buffer was read back as RGB and converted over the locked region
C27_Witness ==
    /\ lastCall.op = "lock"
    /\ lastCall.result = NONE
    /\ lastCall.before # NoHandle
    /\ lastCall.before.hostHandle # 0
    /\ ~m_featureInfo.hasYUVCache
    /\ \E i \in 1..Len(lastCall.log) :
         /\ lastCall.log[i].call \in {"rgb888_to_yv12", "rgb888_to_yuv420p"}
         /\ lastCall.log[i].arg # 0

\* the formats isSupported accepts for some description
SupportedFormats ==
    {"RGBA_8888", "RGBX_8888", "BGRA_8888", "RGB_565", "RGBA_FP16", "RGBA_1010102",
     "YV12", "YCBCR_420_888", "YCBCR_P010", "RGB_888", "YCRCB_420_SP", "RAW16", "Y16",
     "BLOB", "OMX_COLOR_FormatYUV420Planar"}

\* the usage bits that must be zero: 10, 13, 19, 21, 25-27 and 32-47
ReservedBits == {10, 13, 19, 21, 25, 26, 27} \cup (32..47)

\* width, height, layer count and reserved bits of a description are fine
WellFormed(d) ==
    /\ d.width > 0
    /\ d.height > 0
    /\ d.layerCount = 1
    /\ d.usage \cap ReservedBits = {}

\* C21 as stated: isSupported answers true exactly for a description with a
\* format of the supported set, one layer, a width and a height above zero
\* and no reserved usage bit, so that its answer is that for the same
\* description without its non-reserved usage bits.
C21_SupportAsStated ==
    lastCall.op = "isSupported" =>
      LET d == lastCall.descriptor
      IN  /\ lastCall.supported <=> (d.format \in SupportedFormats /\ WellFormed(d))
          /\ lastCall.supported
               = isSupportedImpl([d EXCEPT !.usage = d.usage \cap ReservedBits])

\* C21, amended: isSupported returns NONE and answers true exactly for a
\* description with one layer, a width and a height above zero, no reserved
\* usage bit, and a format that is one of the nine the host renders, or one
\* of RGB_888, YCRCB_420_SP, RAW16, Y16 and BLOB with none of the usage bits
\* 8, 9, 11, 12 and 24 (GPU texture, render target, composer overlay,
\* client target, GPU data buffer), or the OMX planar YUV 4:2:0 format with
\* usage bit 22 (video decoder).
C21_Support ==
    lastCall.op = "isSupported" =>
      LET d == lastCall.descriptor
      IN  /\ lastCall.result = NONE
          /\ lastCall.supported <=>
               /\ WellFormed(d)
               /\ \/ d.format \in {"RGBA_8888", "RGBX_8888", "BGRA_8888", "RGB_565",
                                   "RGBA_FP16", "RGBA_1010102", "YV12", "YCBCR_420_888",
                                   "YCBCR_P010"}
                  \/ /\ d.format \in {"RGB_888", "YCRCB_420_SP", "RAW16", "Y16", "BLOB"}
                     /\ d.usage \cap {8, 9, 11, 12, 24} = {}
                  \/ /\ d.format = "OMX_COLOR_FormatYUV420Planar"
                     /\ 22 \in d.usage

\* a description of a CPU-only format was refused for its GPU usage bit
C21_Witness ==
    /\ lastCall.op = "isSupported"
    /\ lastCall.descriptor.format = "YCRCB_420_SP"
    /\ WellFormed(lastCall.descriptor)
    /\ 8 \in lastCall.descriptor.usage
    /\ ~lastCall.supported

\* every connection a context holds had its capabilities negotiated once
NegotiatedOnce ==
    \A ctx \in Contexts :
       connections[ctx].conn # NoConnection => connections[ctx].conn.negotiations = 1

\* what a getOrCreate returns and registers, by what it found
GetOrCreateOutcome ==
    lastCall.op = "getOrCreate" =>
       LET conn == connections[lastCall.ctx].conn
           connects == Calls(lastCall.log, "connect", "ok")
                         \cup Calls(lastCall.log, "connect", "fail")
           negotiates == Calls(lastCall.log, "negotiate", "ok")
       IN  IF lastCall.before # NoConnection
           THEN /\ lastCall.returned = lastCall.before.instance
                /\ conn.instance = lastCall.before.instance
                /\ conn.negotiations = lastCall.before.negotiations
                /\ connects = {} /\ negotiates = {}
           ELSE IF Calls(lastCall.log, "connect", "ok") # {}
           THEN /\ lastCall.returned = conn.instance
                /\ conn # NoConnection
                /\ Cardinality(negotiates) = 1
           ELSE /\ lastCall.returned = NoConnection.instance
                /\ conn = NoConnection
                /\ negotiates = {}

\* a getOrCreate right after one of the same context that returned a
\* connection returns that connection
SameInstanceTwice ==
    (/\ lastCall.op = "getOrCreate"
     /\ lastCall.returned # NoConnection.instance
     /\ lastCall'.op = "getOrCreate"
     /\ lastCall'.ctx = lastCall.ctx)
    => /\ lastCall'.returned = lastCall.returned
       /\ connections'[lastCall.ctx] = connections[lastCall.ctx]

\* C23: two calls of getOrCreate from one context return the same
\* connection, for which capabilities were negotiated exactly once; a
\* getOrCreate whose transport does not open returns no connection and
\* registers none.
C23_GetOrCreate ==
    [](NegotiatedOnce /\ GetOrCreateOutcome) /\ [][SameInstanceTwice]_vars

\* a context that holds a connection asked again and got the same instance
C23_Witness ==
    /\ lastCall.op = "getOrCreate"
    /\ lastCall.before # NoConnection
    /\ lastCall.returned = lastCall.before.instance
    /\ connections[lastCall.ctx].conn.negotiations = 1

\* C24: once a connection has negotiated its capabilities, no call changes
\* what its capability queries answer (sync tier, DMA version, GLES max
\* version, host composition, YUV cache, read-back DMA) as long as the
\* connection lives.
C24_CapabilitiesImmutable ==
    [][\A ctx \in Contexts :
         (/\ connections[ctx].conn # NoConnection
          /\ connections'[ctx].conn # NoConnection
          /\ connections'[ctx].conn.instance = connections[ctx].conn.instance)
         => CapabilityQueries(connections'[ctx].conn.featureInfo)
              = CapabilityQueries(connections[ctx].conn.featureInfo)]_vars

MapperOps == {"importBuffer", "freeBuffer", "lock", "lockYCbCr", "unlock"}

\* the constructor ended the process, or it returned with m_physAddrToOffset
\* computed from a block hostMalloc handed out and hostFree got back
ConstructedOrFatal ==
    lastCall.op = "GoldfishMapper" =>
       LET log == lastCall.log
           probes == Calls(log, "hostMalloc", "ok")
       IN  IF probes = {}
           THEN aborted /\ ~constructed /\ Calls(log, "hostFree", "ok") = {}
           ELSE /\ constructed /\ ~aborted
                /\ Cardinality(probes) = 1
                /\ \A i \in probes :
                     /\ m_physAddrToOffset = log[i].on - log[i].arg
                     /\ \E j \in Calls(log, "hostFree", "ok") :
                          j > i /\ log[j].on = log[i].on /\ log[j].arg = log[i].arg

\* a mapper that was not constructed has made no call, and the transfers of
\* a constructed one use the constant
OnlyConstructedServes ==
    /\ lastCall.op \in MapperOps => constructed /\ m_physAddrToOffset # NotComputed
    /\ ~constructed => \A h \in Slots : handles[h] = NoHandle
    /\ lastCall.op \in {"lock", "unlock"} =>
         \A i \in 1..Len(lastCall.log) :
            lastCall.log[i].call = "bindDmaDirectly" =>
               lastCall.log[i].arg = m_physAddrToOffset + lastCall.before.mmapedOffset

\* no step changes the constant of a constructed mapper
ConstantKept ==
    constructed => constructed' /\ m_physAddrToOffset' = m_physAddrToOffset

\* C25: the constructor either ends the process or returns with
\* m_physAddrToOffset = physAddr() - offset() of a block hostMalloc handed
\* out and that it freed; only a mapper whose constant was computed imports,
\* locks, unlocks and frees buffers, and the constant does not change then.
C25_PhysAddrToOffset ==
    [](ConstructedOrFatal /\ OnlyConstructedServes) /\ [][ConstantKept]_vars

\* a constructed mapper transferred a buffer using the constant
C25_Witness ==
    /\ constructed
    /\ m_physAddrToOffset \in {4096, 8192}
    /\ lastCall.op = "lock"
    /\ lastCall.result = NONE
    /\ HasCall(lastCall.log, "bindDmaDirectly")

\* thread t has written lockedUsage
Wrote(t) == threads[t].pc = "done" /\ threads[t].result = NONE

\* C26: of two threads that call lock on one unlocked handle, one returns
\* BAD_VALUE for the lock state exactly when its check of lockedUsage read
\* what the other had written before, and a thread whose check ran before
\* the other's write goes on to lock the handle too: check and write are
\* separate steps, so both calls can return NONE.
C26_LockRace ==
    \A t \in Threads : \A u \in Threads \ {t} :
       /\ (threads[t].pc = "done" /\ threads[t].result = BAD_VALUE)
          => (threads[t].read # 0 /\ Wrote(u))
       /\ threads[t].read > 0 => (threads[t].pc = "done" /\ threads[t].result = BAD_VALUE)
       /\ (threads[t].pc \in {"sync", "region", "usage"} \/ Wrote(t))
          => threads[t].read = 0

\* both threads have locked the handle
C26_Witness ==
    /\ \A t \in Threads : threads[t].pc = "done" /\ threads[t].result = NONE
    /\ handles[RaceRaw].lockedUsage # 0

====
